---- MODULE Spec2Model ----
(***************************************************************************)
(* A model of the block exchange core of rust-ipfs:                        *)
(*   - the sled pin store      (src/src/repo/kv.rs)                        *)
(*   - the Bitswap behaviour   (src/deprecated/bitswap/src/behaviour.rs)   *)
(* Each component has its own specification over the shared variables.     *)
(***************************************************************************)
EXTENDS Integers, Sequences, FiniteSets, TLC

(***************************************************************************)
(* Bounds of the model.                                                    *)
(***************************************************************************)
NumCids == 3

NumPeers == 2

NumBlocks == 1

MaxPrio == 2

MaxEvents == 1

MaxChan == 1

MaxMsgItems == 1

MaxSentBlocks == 1

MaxConns == 1

\* Longest list of CIDs handed to query.
MaxIds == 2

\* Handling one inbound message: the CIDs it can name, the entries it can
\* carry and the events that may be queued when it arrives.
NumHCids == 2

MaxHItems == 3

MaxHEvents == 1

MaxHCalls == 4

\* Connections coming and going: the calls of one run.
MaxSCalls == 5

\* The scheduler step: the calls of one run other than poll.
MaxPCalls == 4

\* Several connections to one peer: the connections a peer can have at once.
MaxPeerConns == 2

\* Wants and their cancels: the calls of one run other than poll.
MaxCCalls == 4

\* UnixFS get: files of a DAG, segments of a file, bytes of a segment.
MaxFiles == 2

MaxSegments == 2

MaxSegLen == 2

\* Concurrent pin store calls: the tasks, the CIDs they work on, and the
\* number of attempts of one transaction that is told apart.
NumTasks == 2

NumTxCids == 2

MaxAttempts == 1

\* CIDs of the pin store.
Cids == 1 .. NumCids

\* Remote peers, CIDs and priorities of the Bitswap behaviour.
Peers == 1 .. NumPeers

BsCids == 1 .. NumBlocks

Prios == 1 .. MaxPrio

VARIABLES
    db,        \* the sled default tree: key -> value
    pinLast,   \* the last pin store call: its arguments, result and effect
    bs,        \* the Bitswap behaviour
    conns,     \* the swarm: the number of established connections per peer
    bsLast,    \* the last call on the behaviour: its arguments, result and effect
    bs2,       \* a second behaviour, the remote end of the two-peer exchange
    net,       \* the messages in flight between the two behaviours
    xs,        \* the two-peer exchange: what the two users and swarms have done
    ptx,       \* the pin store calls running concurrently, one per task
    serial,    \* the tree the committed calls give when run one after another
    ux         \* a UnixFS get: its walker, its sink and the statuses it has yielded

pinVars == <<db, pinLast>>

bsVars == <<bs, conns, bsLast>>

xVars == <<bs2, net, xs>>

txVars == <<ptx, serial>>

getVars == <<ux>>

vars == <<db, pinLast, bs, conns, bsLast, bs2, net, xs, ptx, serial, ux>>

(***************************************************************************)
(* Small helpers.                                                          *)
(***************************************************************************)
MapPut(m, k, v) == [x \in DOMAIN m \cup {k} |-> IF x = k THEN v ELSE m[x]]

MapDel(m, k) == [x \in DOMAIN m \ {k} |-> m[x]]

EmptyMap == <<>>

\* The orders in which the elements of S can be iterated.
Orders(S) ==
    {f \in [1 .. Cardinality(S) -> S] : \A i, j \in DOMAIN f : i /= j => f[i] /= f[j]}

RECURSIVE SortedSeq(_)
SortedSeq(S) ==
    IF S = {} THEN <<>>
    ELSE LET m == CHOOSE x \in S : \A y \in S : x <= y
         IN <<m>> \o SortedSeq(S \ {m})

(***************************************************************************)
(* Pin store: key schema and values.                                       *)
(***************************************************************************)
PinModes == <<"Direct", "Recursive", "Indirect">>

\* Cid::to_string: the text form of a CID.
cid_to_string(cid) == <<"cid", cid>>

\* Cid::from_str: parses the text form, failing on anything else.
cid_from_str(s) ==
    IF Len(s) = 2 /\ s[1] = "cid" /\ s[2] \in Cids
    THEN [ok |-> TRUE, cid |-> s[2]]
    ELSE [ok |-> FALSE, cid |-> 0]

pin_mode_literal(pin_mode) ==
    CASE pin_mode = "Direct" -> "d"
      [] pin_mode = "Indirect" -> "i"
      [] pin_mode = "Recursive" -> "r"

get_pin_key(cid, pin_mode) == <<"pin", pin_mode_literal(pin_mode), cid_to_string(cid)>>

direct_value == <<>>

recursive_value == <<>>

indirect_value(recursively_pinned) == cid_to_string(recursively_pinned)

cid_from_indirect_value(bytes) == cid_from_str(bytes)

(***************************************************************************)
(* A sled transaction: the body works on a private view of the tree, and   *)
(* the view replaces the tree when the body returns Ok.  The view also     *)
(* records the keys handed to insert and to remove.                        *)
(***************************************************************************)
TxBegin(tree) == [tree |-> tree, inserted |-> {}, removed |-> {}]

TxGet(tx, key) == key \in DOMAIN tx.tree

TxInsert(tx, key, value) ==
    [tree |-> MapPut(tx.tree, key, value),
     inserted |-> tx.inserted \cup {key},
     removed |-> tx.removed]

TxRemove(tx, key) ==
    [tree |-> MapDel(tx.tree, key),
     inserted |-> tx.inserted,
     removed |-> tx.removed \cup {key}]

Ok == "Ok"

ErrAlreadyRecursive == "already pinned recursively"

ErrNotPinned == "not pinned or pinned indirectly"

\* db.transaction(body): commit on Ok, roll back on Abort.
TxCommit(tree, body) ==
    LET out == body
    IN IF out.res = Ok
       THEN [db |-> out.tx.tree, res |-> Ok,
             inserted |-> out.tx.inserted, removed |-> out.tx.removed]
       ELSE [db |-> tree, res |-> out.res, inserted |-> {}, removed |-> {}]

NoMode == [some |-> FALSE, mode |-> "None", key |-> <<>>]

RECURSIVE ProbeModes(_, _, _)
ProbeModes(tx, block, i) ==
    IF i > Len(PinModes) THEN NoMode
    ELSE LET key == get_pin_key(block, PinModes[i])
         IN IF TxGet(tx, key)
            THEN [some |-> TRUE, mode |-> PinModes[i], key |-> key]
            ELSE ProbeModes(tx, block, i + 1)

get_pinned_mode(tx, block) == ProbeModes(tx, block, 1)

\* Mutant: an indirect pin counts as removable.
NotPinnedOnly(tx, block) == ~get_pinned_mode(tx, block).some

is_not_pinned_or_pinned_indirectly(tx, block) ==
    LET m == get_pinned_mode(tx, block)
    IN (~m.some) \/ m.mode = "Indirect"

(***************************************************************************)
(* The transaction bodies.                                                 *)
(***************************************************************************)
\* Mutant: the indirect key is left beside the new direct key.
InsertDirectKeepIndirect(tx, target) ==
    LET already_pinned == get_pinned_mode(tx, target)
    IN IF already_pinned.some /\ already_pinned.mode = "Direct"
       THEN [tx |-> tx, res |-> Ok]
       ELSE IF already_pinned.some /\ already_pinned.mode = "Recursive"
       THEN [tx |-> tx, res |-> ErrAlreadyRecursive]
       ELSE [tx |-> TxInsert(tx, get_pin_key(target, "Direct"), direct_value),
             res |-> Ok]

\* Mutant: a recursive pin is demoted to direct instead of refused.
InsertDirectDemotesRecursive(tx, target) ==
    LET already_pinned == get_pinned_mode(tx, target)
    IN IF already_pinned.some /\ already_pinned.mode = "Direct"
       THEN [tx |-> tx, res |-> Ok]
       ELSE LET t1 == IF already_pinned.some
                      THEN TxRemove(tx, already_pinned.key)
                      ELSE tx
                t2 == TxInsert(t1, get_pin_key(target, "Direct"), direct_value)
            IN [tx |-> t2, res |-> Ok]

\* Mutant: no early return for a CID that is already direct.
InsertDirectRewrites(tx, target) ==
    LET already_pinned == get_pinned_mode(tx, target)
    IN IF already_pinned.some /\ already_pinned.mode = "Recursive"
       THEN [tx |-> tx, res |-> ErrAlreadyRecursive]
       ELSE LET t1 == IF already_pinned.some
                      THEN TxRemove(tx, already_pinned.key)
                      ELSE tx
                t2 == TxInsert(t1, get_pin_key(target, "Direct"), direct_value)
            IN [tx |-> t2, res |-> Ok]

InsertDirectBody(tx, target) ==
    LET already_pinned == get_pinned_mode(tx, target)
    IN IF already_pinned.some /\ already_pinned.mode = "Direct"
       THEN [tx |-> tx, res |-> Ok]
       ELSE IF already_pinned.some /\ already_pinned.mode = "Recursive"
       THEN [tx |-> tx, res |-> ErrAlreadyRecursive]
       ELSE LET t1 == IF already_pinned.some
                      THEN TxRemove(tx, already_pinned.key)
                      ELSE tx
                t2 == TxInsert(t1, get_pin_key(target, "Direct"), direct_value)
            IN [tx |-> t2, res |-> Ok]

\* Mutant: descendants are marked indirect without probing their mode.
RECURSIVE InsertIndirectsNoProbe(_, _, _)
InsertIndirectsNoProbe(tx, refs, target_value) ==
    IF refs = <<>> THEN tx
    ELSE InsertIndirectsNoProbe(
             TxInsert(tx, get_pin_key(Head(refs), "Indirect"), target_value),
             Tail(refs), target_value)

RECURSIVE InsertIndirects(_, _, _)
InsertIndirects(tx, refs, target_value) ==
    IF refs = <<>> THEN tx
    ELSE LET cid == Head(refs)
             indirect_key == get_pin_key(cid, "Indirect")
             t1 == IF get_pinned_mode(tx, cid).some
                   THEN tx
                   ELSE TxInsert(tx, indirect_key, target_value)
         IN InsertIndirects(t1, Tail(refs), target_value)

InsertRecursiveBody(tx, target, set) ==
    LET already_pinned == get_pinned_mode(tx, target)
    IN IF already_pinned.some /\ already_pinned.mode = "Recursive"
       THEN [tx |-> tx, res |-> Ok]
       ELSE LET t1 == IF already_pinned.some
                      THEN TxRemove(tx, already_pinned.key)
                      ELSE tx
                t2 == TxInsert(t1, get_pin_key(target, "Recursive"), recursive_value)
                t3 == InsertIndirects(t2, SortedSeq(set), indirect_value(target))
            IN [tx |-> t3, res |-> Ok]

\* Mutant: the key of the wrong mode is removed.
RemoveDirectWrongKey(tx, target) ==
    IF is_not_pinned_or_pinned_indirectly(tx, target)
    THEN [tx |-> tx, res |-> ErrNotPinned]
    ELSE [tx |-> TxRemove(tx, get_pin_key(target, "Recursive")), res |-> Ok]

RemoveDirectBody(tx, target) ==
    IF is_not_pinned_or_pinned_indirectly(tx, target)
    THEN [tx |-> tx, res |-> ErrNotPinned]
    ELSE [tx |-> TxRemove(tx, get_pin_key(target, "Direct")), res |-> Ok]

\* Mutant: the loop leaves the keys of the descendants in place.
RemoveIndirectsNone(tx, refs) == tx

\* Mutant: the loop deletes the key of every pinned descendant.
RECURSIVE RemoveIndirectsAnyMode(_, _)
RemoveIndirectsAnyMode(tx, refs) ==
    IF refs = <<>> THEN tx
    ELSE LET already_pinned == get_pinned_mode(tx, Head(refs))
             t1 == IF already_pinned.some
                   THEN TxRemove(tx, already_pinned.key)
                   ELSE tx
         IN RemoveIndirectsAnyMode(t1, Tail(refs))

RECURSIVE RemoveIndirects(_, _)
RemoveIndirects(tx, refs) ==
    IF refs = <<>> THEN tx
    ELSE LET already_pinned == get_pinned_mode(tx, Head(refs))
             t1 == IF already_pinned.some /\ already_pinned.mode = "Indirect"
                   THEN TxRemove(tx, already_pinned.key)
                   ELSE tx
         IN RemoveIndirects(t1, Tail(refs))

RemoveRecursiveBody(tx, target, set) ==
    IF is_not_pinned_or_pinned_indirectly(tx, target)
    THEN [tx |-> tx, res |-> ErrNotPinned]
    ELSE LET t1 == TxRemove(tx, get_pin_key(target, "Recursive"))
         IN [tx |-> RemoveIndirects(t1, SortedSeq(set)), res |-> Ok]

(***************************************************************************)
(* Reading the pins: the filter, the kinds query reports, and its body.    *)
(***************************************************************************)
\* Option<PinMode>: no requirement, or one of the three modes.
Requirements == {"None", "Direct", "Recursive", "Indirect"}

PinModeRequirement_from(requirement) ==
    IF requirement = "None" THEN "Any" ELSE requirement

PinModeRequirement_matches(requirement, pin_mode) ==
    requirement = "Any" \/ requirement = pin_mode

PinKind_Direct == [kind |-> "Direct", depth |-> 0, source |-> 0]

PinKind_Recursive(depth) == [kind |-> "Recursive", depth |-> depth, source |-> 0]

PinKind_IndirectFrom(cid) == [kind |-> "IndirectFrom", depth |-> 0, source |-> cid]

NoKind == [some |-> FALSE, err |-> FALSE, kind |-> PinKind_Direct]

SomeKind(kind) == [some |-> TRUE, err |-> FALSE, kind |-> kind]

ErrIndirectSource == "failed to read indirect pin source"

\* Mutant: the requirement is not applied.
QueryMatchedAnyMode(tx, id, requirement) ==
    LET mode_and_key == get_pinned_mode(tx, id)
    IN IF mode_and_key.some
       THEN CASE mode_and_key.mode = "Direct" -> SomeKind(PinKind_Direct)
              [] mode_and_key.mode = "Recursive" -> SomeKind(PinKind_Recursive(0))
              [] mode_and_key.mode = "Indirect" ->
                    SomeKind(PinKind_IndirectFrom(
                        cid_from_indirect_value(tx.tree[mode_and_key.key]).cid))
       ELSE NoKind

\* What query pushes to modes for one id.
QueryMatched(tx, id, requirement) ==
    LET mode_and_key == get_pinned_mode(tx, id)
    IN IF mode_and_key.some /\ PinModeRequirement_matches(requirement, mode_and_key.mode)
       THEN CASE mode_and_key.mode = "Direct" -> SomeKind(PinKind_Direct)
              [] mode_and_key.mode = "Recursive" -> SomeKind(PinKind_Recursive(0))
              [] mode_and_key.mode = "Indirect" ->
                    IF TxGet(tx, mode_and_key.key)
                    THEN LET root == cid_from_indirect_value(tx.tree[mode_and_key.key])
                         IN IF root.ok
                            THEN SomeKind(PinKind_IndirectFrom(root.cid))
                            ELSE [some |-> FALSE, err |-> TRUE, kind |-> PinKind_Direct]
                    ELSE NoKind
       ELSE NoKind

\* The byte order of the keys "pin.<mode letter>.<cid>", which a range scan
\* of the tree follows.
LetterRank(letter) ==
    CASE letter = "d" -> 1
      [] letter = "i" -> 2
      [] letter = "r" -> 3
      [] OTHER -> 4

KeyLeq(k1, k2) ==
    \/ LetterRank(k1[2]) < LetterRank(k2[2])
    \/ LetterRank(k1[2]) = LetterRank(k2[2]) /\ k1[3][2] <= k2[3][2]

RECURSIVE RangeScan(_)
RangeScan(keys) ==
    IF keys = {} THEN <<>>
    ELSE LET k == CHOOSE x \in keys : \A y \in keys : KeyLeq(x, y)
         IN <<k>> \o RangeScan(keys \ {k})

\* k[4] of a key read back as a pin mode.
mode_from_literal(letter) ==
    CASE letter = "d" -> [ok |-> TRUE, mode |-> "Direct"]
      [] letter = "r" -> [ok |-> TRUE, mode |-> "Recursive"]
      [] letter = "i" -> [ok |-> TRUE, mode |-> "Indirect"]
      [] OTHER -> [ok |-> FALSE, mode |-> "None"]

ListOk(cid, mode) == [ok |-> TRUE, cid |-> cid, mode |-> mode, err |-> ""]

ListErr(err) == [ok |-> FALSE, cid |-> 0, mode |-> "None", err |-> err]

\* Mutant: the requirement is not applied to the listing.
ListItemAnyMode(k, requirement) ==
    LET mode == mode_from_literal(k[2])
        cid == cid_from_str(k[3])
    IN <<ListOk(cid.cid, mode.mode)>>

\* What the listing yields for one key of the tree: nothing, an item or an
\* error item.
ListItem(k, requirement) ==
    IF k[1] /= "pin"
    THEN <<ListErr("invalid pin")>>
    ELSE LET mode == mode_from_literal(k[2])
         IN IF ~mode.ok
            THEN <<ListErr("invalid pinmode")>>
            ELSE IF ~PinModeRequirement_matches(requirement, mode.mode)
            THEN <<>>
            ELSE LET cid == cid_from_str(k[3])
                 IN IF cid.ok
                    THEN <<ListOk(cid.cid, mode.mode)>>
                    ELSE <<ListErr("failed to read pin")>>

RECURSIVE ListItems(_, _)
ListItems(keys, requirement) ==
    IF keys = <<>> THEN <<>>
    ELSE ListItem(Head(keys), requirement) \o ListItems(Tail(keys), requirement)

RECURSIVE QueryModes(_, _, _)
QueryModes(tx, ids, requirement) ==
    IF ids = <<>> THEN [res |-> Ok, modes |-> <<>>]
    ELSE LET matched == QueryMatched(tx, Head(ids), requirement)
         IN IF matched.err
            THEN [res |-> ErrIndirectSource, modes |-> <<>>]
            ELSE LET rest == QueryModes(tx, Tail(ids), requirement)
                 IN [res |-> rest.res,
                     modes |-> IF rest.res = Ok THEN <<matched>> \o rest.modes ELSE <<>>]

\* ids zipped with modes, the entries without a mode dropped.
RECURSIVE ZipMatched(_, _)
ZipMatched(ids, modes) ==
    IF ids = <<>> \/ modes = <<>> THEN <<>>
    ELSE (IF Head(modes).some THEN << <<Head(ids), Head(modes).kind>> >> ELSE <<>>)
             \o ZipMatched(Tail(ids), Tail(modes))

(***************************************************************************)
(* The PinStore operations of KvDataStore, as functions of the tree.       *)
(***************************************************************************)
is_pinned(tree, cid) == get_pinned_mode(TxBegin(tree), cid).some

insert_direct_pin(tree, target) ==
    TxCommit(tree, InsertDirectBody(TxBegin(tree), target))

insert_recursive_pin(tree, target, referenced) ==
    TxCommit(tree, InsertRecursiveBody(TxBegin(tree), target, referenced))

remove_direct_pin(tree, target) ==
    TxCommit(tree, RemoveDirectBody(TxBegin(tree), target))

remove_recursive_pin(tree, target, referenced) ==
    TxCommit(tree, RemoveRecursiveBody(TxBegin(tree), target, referenced))

query(tree, ids, requirement) ==
    LET tx == TxBegin(tree)
        got == QueryModes(tx, ids, PinModeRequirement_from(requirement))
        done == TxCommit(tree, [tx |-> tx, res |-> got.res])
    IN [db |-> done.db, res |-> done.res,
        out |-> IF done.res = Ok THEN ZipMatched(ids, got.modes) ELSE <<>>]

\* list with nothing else running: the whole stream it yields.
list(tree, requirement) ==
    ListItems(RangeScan(DOMAIN tree), PinModeRequirement_from(requirement))

(***************************************************************************)
(* Pin store actions.  A call runs its transaction in one step and leaves  *)
(* in pinLast what the caller sees: the arguments, the result, the tree    *)
(* the call ran on (pre) and the keys it wrote and deleted.  PinReturn     *)
(* hands the result to the caller, who then makes the next call; prev      *)
(* remembers the target of a successful insert_direct_pin for the call     *)
(* that directly follows it (chained).                                     *)
(***************************************************************************)
Idle(prev) ==
    [op |-> "none", target |-> 0, refs |-> {}, res |-> Ok, val |-> FALSE,
     pre |-> EmptyMap, inserted |-> {}, removed |-> {}, chained |-> FALSE,
     prev |-> prev, ids |-> <<>>, filter |-> "None", out |-> <<>>]

PinCall(op, target, refs, r) ==
    /\ pinLast.op = "none"
    /\ db' = r.db
    /\ pinLast' = [op |-> op, target |-> target, refs |-> refs, res |-> r.res,
                   val |-> FALSE, pre |-> db, inserted |-> r.inserted,
                   removed |-> r.removed, chained |-> (pinLast.prev = target),
                   prev |-> 0, ids |-> <<>>, filter |-> "None", out |-> <<>>]

IsPinned ==
    \E cid \in Cids :
        /\ pinLast.op = "none"
        /\ db' = db
        /\ pinLast' = [op |-> "is_pinned", target |-> cid, refs |-> {}, res |-> Ok,
                       val |-> is_pinned(db, cid), pre |-> db, inserted |-> {},
                       removed |-> {}, chained |-> (pinLast.prev = cid),
                       prev |-> 0, ids |-> <<>>, filter |-> "None", out |-> <<>>]

InsertDirectPin ==
    \E target \in Cids :
        LET r == insert_direct_pin(db, target)
        IN PinCall("insert_direct_pin", target, {}, r)

InsertRecursivePin ==
    \E target \in Cids, referenced \in SUBSET Cids :
        LET r == insert_recursive_pin(db, target, referenced)
        IN PinCall("insert_recursive_pin", target, referenced, r)

RemoveDirectPin ==
    \E target \in Cids :
        LET r == remove_direct_pin(db, target)
        IN PinCall("remove_direct_pin", target, {}, r)

RemoveRecursivePin ==
    \E target \in Cids, referenced \in SUBSET Cids :
        LET r == remove_recursive_pin(db, target, referenced)
        IN PinCall("remove_recursive_pin", target, referenced, r)

\* The lists of CIDs a caller hands to query.
IdLists == UNION {[1 .. n -> Cids] : n \in 0 .. MaxIds}

Query ==
    \E ids \in IdLists, requirement \in Requirements :
        LET r == query(db, ids, requirement)
        IN /\ pinLast.op = "none"
           /\ db' = r.db
           /\ pinLast' = [op |-> "query", target |-> 0, refs |-> {}, res |-> r.res,
                          val |-> FALSE, pre |-> db, inserted |-> {}, removed |-> {},
                          chained |-> FALSE, prev |-> 0, ids |-> ids,
                          filter |-> requirement, out |-> r.out]

List ==
    \E requirement \in Requirements :
        /\ pinLast.op = "none"
        /\ db' = db
        /\ pinLast' = [op |-> "list", target |-> 0, refs |-> {}, res |-> Ok,
                       val |-> FALSE, pre |-> db, inserted |-> {}, removed |-> {},
                       chained |-> FALSE, prev |-> 0, ids |-> <<>>,
                       filter |-> requirement, out |-> list(db, requirement)]

PinReturn ==
    /\ pinLast.op /= "none"
    /\ db' = db
    /\ pinLast' = Idle(IF pinLast.op = "insert_direct_pin" /\ pinLast.res = Ok
                       THEN pinLast.target
                       ELSE 0)

PinInit ==
    /\ db = EmptyMap
    /\ pinLast = Idle(0)


(***************************************************************************)
(* Properties of the pin store (checked under SpecPin).                    *)
(***************************************************************************)
\* The pin modes whose key is present for cid.
ModesOf(tree, cid) ==
    {m \in {"Direct", "Recursive", "Indirect"} : get_pin_key(cid, m) \in DOMAIN tree}

\* cid has the same keys with the same values in both trees.
SameKeys(t1, t2, cid) ==
    \A m \in {"Direct", "Recursive", "Indirect"} :
        LET key == get_pin_key(cid, m)
        IN /\ (key \in DOMAIN t1) <=> (key \in DOMAIN t2)
           /\ key \in DOMAIN t1 => t1[key] = t2[key]

PinnedAs(tree, cid, mode) ==
    LET m == get_pinned_mode(TxBegin(tree), cid)
    IN m.some /\ m.mode = mode

\* C2: in every reachable state of the pin store every CID has at most one
\* of its three keys (Direct, Recursive, Indirect) present.
C2_AtMostOneMode == \A cid \in Cids : Cardinality(ModesOf(db, cid)) <= 1

\* An indirect pin was replaced by a direct one.
C2_Witness ==
    /\ pinLast.op = "insert_direct_pin"
    /\ ModesOf(pinLast.pre, pinLast.target) = {"Indirect"}
    /\ ModesOf(db, pinLast.target) = {"Direct"}

\* C6: insert_direct_pin(c) on a CID pinned Recursive fails with "already
\* pinned recursively" and leaves the whole store unchanged; c stays pinned
\* Recursive and is_pinned(c) stays true.
C6_DirectOverRecursiveFails ==
    (pinLast.op = "insert_direct_pin" /\ PinnedAs(pinLast.pre, pinLast.target, "Recursive"))
        => /\ pinLast.res = ErrAlreadyRecursive
           /\ db = pinLast.pre
           /\ PinnedAs(db, pinLast.target, "Recursive")
           /\ is_pinned(db, pinLast.target)

C6_Witness ==
    /\ pinLast.op = "insert_direct_pin"
    /\ PinnedAs(pinLast.pre, pinLast.target, "Recursive")
    /\ pinLast.res = ErrAlreadyRecursive
    /\ \E cid \in Cids \ {pinLast.target} : ModesOf(db, cid) = {"Indirect"}

\* C7: remove_direct_pin(c) and remove_recursive_pin(c, refs) fail with "not
\* pinned or pinned indirectly" exactly when c has no pin key or only an
\* Indirect key, and a failing call leaves every key of the store unchanged.
C7_RemoveFailsIffNotPinned ==
    pinLast.op \in {"remove_direct_pin", "remove_recursive_pin"}
        => /\ pinLast.res \in {Ok, ErrNotPinned}
           /\ pinLast.res = ErrNotPinned
                <=> ModesOf(pinLast.pre, pinLast.target) \subseteq {"Indirect"}
           /\ pinLast.res = ErrNotPinned => db = pinLast.pre

\* A failing remove_recursive_pin whose refs name an indirectly pinned CID.
C7_Witness ==
    /\ pinLast.op = "remove_recursive_pin"
    /\ pinLast.res = ErrNotPinned
    /\ ModesOf(pinLast.pre, pinLast.target) = {"Indirect"}
    /\ \E cid \in pinLast.refs \ {pinLast.target} : ModesOf(db, cid) = {"Indirect"}

\* C8: after a successful insert_direct_pin(B), is_pinned(B) is true; a
\* remove_direct_pin(B) called right after it succeeds and leaves
\* is_pinned(B) false.
C8_PinRoundTrip ==
    /\ (pinLast.op = "insert_direct_pin" /\ pinLast.res = Ok)
         => is_pinned(db, pinLast.target)
    /\ (pinLast.op = "remove_direct_pin" /\ pinLast.chained)
         => (pinLast.res = Ok /\ ~is_pinned(db, pinLast.target))

C8_Witness ==
    /\ pinLast.op = "remove_direct_pin"
    /\ pinLast.chained
    /\ pinLast.res = Ok
    /\ ~is_pinned(db, pinLast.target)

\* C9: a successful insert_direct_pin(c) called right after a successful
\* insert_direct_pin(c) leaves the store as the first call left it and
\* writes and deletes no key.
C9_InsertDirectIdempotent ==
    (pinLast.op = "insert_direct_pin" /\ pinLast.chained)
        => /\ pinLast.res = Ok
           /\ db = pinLast.pre
           /\ pinLast.inserted = {}
           /\ pinLast.removed = {}

C9_Witness ==
    /\ pinLast.op = "insert_direct_pin"
    /\ pinLast.chained
    /\ pinLast.res = Ok
    /\ db /= EmptyMap

C11_RemoveRecursive ==
    (pinLast.op = "remove_recursive_pin" /\ pinLast.res = Ok)
        => /\ ModesOf(db, pinLast.target) = ModesOf(pinLast.pre, pinLast.target) \ {"Recursive"}
           /\ \A d \in pinLast.refs \ {pinLast.target} :
                IF PinnedAs(pinLast.pre, d, "Indirect")
                THEN ModesOf(db, d) = {}
                ELSE SameKeys(pinLast.pre, db, d)
           /\ \A x \in Cids \ (pinLast.refs \cup {pinLast.target}) :
                SameKeys(pinLast.pre, db, x)
           /\ DOMAIN db \subseteq DOMAIN pinLast.pre

\* A recursive pin is removed with one indirect descendant and another CID
\* that is pinned directly or recursively.
C11_Witness ==
    /\ pinLast.op = "remove_recursive_pin"
    /\ pinLast.res = Ok
    /\ ModesOf(pinLast.pre, pinLast.target) = {"Recursive"}
    /\ ModesOf(db, pinLast.target) = {}
    /\ \E d1 \in pinLast.refs \ {pinLast.target} :
         /\ ModesOf(pinLast.pre, d1) = {"Indirect"}
         /\ ModesOf(db, d1) = {}
         /\ \E d2 \in pinLast.refs \ {pinLast.target, d1} :
              /\ ModesOf(pinLast.pre, d2) \in {{"Direct"}, {"Recursive"}}
              /\ ModesOf(db, d2) = ModesOf(pinLast.pre, d2)

\* The entries query is to return for ids: one per position whose CID has
\* a key of a mode the filter admits.
RECURSIVE ExpectedQuery(_, _, _)
ExpectedQuery(tree, ids, filter) ==
    IF ids = <<>> THEN <<>>
    ELSE LET id == Head(ids)
             admitted == {m \in ModesOf(tree, id) : filter \in {"None", m}}
             entry ==
                 IF "Direct" \in admitted
                 THEN << <<id, [kind |-> "Direct", depth |-> 0, source |-> 0]>> >>
                 ELSE IF "Recursive" \in admitted
                 THEN << <<id, [kind |-> "Recursive", depth |-> 0, source |-> 0]>> >>
                 ELSE IF "Indirect" \in admitted
                 THEN << <<id, [kind |-> "IndirectFrom", depth |-> 0,
                               source |-> CHOOSE c \in Cids :
                                   tree[get_pin_key(id, "Indirect")] = indirect_value(c)]>> >>
                 ELSE <<>>
         IN entry \o ExpectedQuery(tree, Tail(ids), filter)

\* C12: query(ids, filter) succeeds and returns, in input order, one entry
\* for each input CID pinned with a mode the filter admits (Direct,
\* Recursive(0), IndirectFrom(the stored ancestor)) and none for the
\* others; the store is unchanged; empty ids give an empty result.
C12_Query ==
    pinLast.op = "query"
        => /\ pinLast.res = Ok
           /\ pinLast.out = ExpectedQuery(pinLast.pre, pinLast.ids, pinLast.filter)
           /\ db = pinLast.pre
           /\ pinLast.ids = <<>> => pinLast.out = <<>>

\* Two ids are asked for with a filter: the first is Indirect and reported
\* with its ancestor, the second is pinned in a mode the filter leaves out.
C12_Witness ==
    /\ pinLast.op = "query"
    /\ pinLast.filter = "Indirect"
    /\ Len(pinLast.ids) = 2
    /\ Len(pinLast.out) = 1
    /\ pinLast.out[1][1] = pinLast.ids[1]
    /\ pinLast.out[1][2].kind = "IndirectFrom"
    /\ ModesOf(db, pinLast.out[1][2].source) = {"Recursive"}
    /\ ModesOf(db, pinLast.ids[2]) \in {{"Direct"}, {"Recursive"}}

\* The (CID, mode) pairs that have a key in tree and a mode the filter admits.
ListedPins(tree, filter) ==
    {pin \in Cids \X {"Direct", "Recursive", "Indirect"} :
        /\ get_pin_key(pin[1], pin[2]) \in DOMAIN tree
        /\ filter \in {"None", pin[2]}}

\* C13: list(filter), with nothing else running, yields one (CID, mode) item
\* for every pin key whose mode the filter admits, and nothing else: no
\* error item, no item twice.  On a store holding only C's Recursive key
\* list(None) yields exactly [(C, Recursive)].
C13_List ==
    pinLast.op = "list"
        => /\ \A i \in DOMAIN pinLast.out : pinLast.out[i].ok
           /\ {<<pinLast.out[i].cid, pinLast.out[i].mode>> : i \in DOMAIN pinLast.out}
                = ListedPins(pinLast.pre, pinLast.filter)
           /\ Len(pinLast.out) = Cardinality(ListedPins(pinLast.pre, pinLast.filter))
           /\ db = pinLast.pre
           /\ \A c \in Cids :
                (pinLast.filter = "None" /\ DOMAIN db = {get_pin_key(c, "Recursive")})
                    => pinLast.out = <<[ok |-> TRUE, cid |-> c, mode |-> "Recursive", err |-> ""]>>

\* A filtered listing of a store that holds keys of all three modes.
C13_Witness ==
    /\ pinLast.op = "list"
    /\ pinLast.filter = "Indirect"
    /\ Len(pinLast.out) = 1
    /\ \A m \in {"Direct", "Recursive", "Indirect"} :
         \E c \in Cids : get_pin_key(c, m) \in DOMAIN db

(***************************************************************************)
(* Pin store calls running concurrently.  Every call runs its body in one  *)
(* sled transaction: the body works on a view of the tree taken when the   *)
(* attempt starts; the attempt commits, applying its writes in one step,   *)
(* if the tree is still the one it read, and otherwise the body is run     *)
(* again.  serial follows the committed calls run one after another, in    *)
(* commit order, by the operations above.                                  *)
(***************************************************************************)
Tasks == 1 .. NumTasks

TxCids == 1 .. NumTxCids

\* The lists a task hands to query: all the CIDs, in some order.
TxIdLists == Orders(TxCids)

\* The calls a task can make.
TxCalls ==
    [name : {"is_pinned", "insert_direct_pin", "remove_direct_pin"},
     target : TxCids, refs : {{}}, ids : {<<>>}]
    \cup {c \in [name : {"insert_recursive_pin", "remove_recursive_pin"},
                 target : TxCids, refs : SUBSET TxCids, ids : {<<>>}] :
             c.target \notin c.refs}
    \cup [name : {"query"}, target : {0}, refs : {{}}, ids : TxIdLists]

NoCall == [name |-> "none", target |-> 0, refs |-> {}, ids |-> <<>>]

NoRet == [res |-> Ok, val |-> FALSE, out |-> <<>>]

TaskIdle ==
    [pc |-> "idle", call |-> NoCall, set |-> {}, attempts |-> 0,
     snap |-> EmptyMap, view |-> EmptyMap, writes |-> {}, ret |-> NoRet,
     on |-> EmptyMap, after |-> EmptyMap, serialRet |-> NoRet]

\* Mutant: the body takes the descendants out of the collected set, so only
\* the first attempt finds them.
TxRefsDrained(task) == IF task.attempts = 0 THEN task.set ELSE {}

\* The descendants the body iterates in an attempt: the collected set.
TxRefs(task) == task.set

\* One execution of the body of call on tree, with set as its descendants:
\* the view it leaves, the keys it wrote and what it returns.
RunBody(call, tree, set) ==
    LET tx == TxBegin(tree)
    IN CASE call.name = "is_pinned" ->
              [db |-> tree, writes |-> {},
               ret |-> [res |-> Ok, val |-> get_pinned_mode(tx, call.target).some,
                        out |-> <<>>]]
         [] call.name = "query" ->
              LET r == query(tree, call.ids, "None")
              IN [db |-> r.db, writes |-> {},
                  ret |-> [res |-> r.res, val |-> FALSE, out |-> r.out]]
         [] OTHER ->
              LET r == CASE call.name = "insert_direct_pin" ->
                              TxCommit(tree, InsertDirectBody(tx, call.target))
                         [] call.name = "insert_recursive_pin" ->
                              TxCommit(tree, InsertRecursiveBody(tx, call.target, set))
                         [] call.name = "remove_direct_pin" ->
                              TxCommit(tree, RemoveDirectBody(tx, call.target))
                         [] call.name = "remove_recursive_pin" ->
                              TxCommit(tree, RemoveRecursiveBody(tx, call.target, set))
              IN [db |-> r.db, writes |-> r.inserted \cup r.removed,
                  ret |-> [res |-> r.res, val |-> FALSE, out |-> <<>>]]

\* Mutant: an attempt commits whatever happened to the tree since it read it.
TxAlwaysValid(task, tree) == TRUE

\* An attempt may commit when the tree is the one its body read.
TxValidate(task, tree) == task.snap = tree

\* The writes of a committed attempt applied to the tree in one step.
TxApply(tree, view, writes) ==
    [k \in (DOMAIN tree \ writes) \cup (writes \cap DOMAIN view) |->
        IF k \in writes THEN view[k] ELSE tree[k]]

\* An attempt of the task's transaction on the tree as it is now.
TxAttempt(task, tree) ==
    LET r == RunBody(task.call, tree, TxRefs(task))
    IN [task EXCEPT !.pc = "staged", !.snap = tree, !.view = r.db,
                    !.writes = r.writes, !.ret = r.ret]

\* A task calls an operation: the descendants are collected, then the
\* transaction makes its first attempt.
TxCall(t) ==
    /\ ptx[t].pc = "idle"
    /\ \E call \in TxCalls :
         ptx' = [ptx EXCEPT ![t] =
                    TxAttempt([TaskIdle EXCEPT !.call = call, !.set = call.refs], db)]
    /\ UNCHANGED <<db, serial>>

\* The tree changed under the attempt: the body runs again.
TxRetry(t) ==
    /\ ptx[t].pc = "staged"
    /\ ~TxValidate(ptx[t], db)
    /\ ptx' = [ptx EXCEPT ![t] =
                  TxAttempt([ptx[t] EXCEPT
                                !.attempts = IF @ < MaxAttempts THEN @ + 1 ELSE @], db)]
    /\ UNCHANGED <<db, serial>>

\* The attempt commits (or aborts with the body's error) and the
\* transaction returns.
TxFinish(t) ==
    /\ ptx[t].pc = "staged"
    /\ TxValidate(ptx[t], db)
    /\ LET task == ptx[t]
           one == RunBody(task.call, serial, task.call.refs)
           after == IF task.ret.res = Ok
                    THEN TxApply(db, task.view, task.writes)
                    ELSE db
       IN /\ db' = after
          /\ serial' = one.db
          /\ ptx' = [ptx EXCEPT ![t] =
                        [task EXCEPT !.pc = "done", !.on = db, !.after = after,
                                     !.serialRet = one.ret,
                                     !.snap = EmptyMap, !.view = EmptyMap,
                                     !.writes = {}]]

\* The caller gets the result.
TxReturn(t) ==
    /\ ptx[t].pc = "done"
    /\ ptx' = [ptx EXCEPT ![t] = TaskIdle]
    /\ UNCHANGED <<db, serial>>

TxInit ==
    /\ ptx = [t \in Tasks |-> TaskIdle]
    /\ serial = EmptyMap

NextPinTx ==
    /\ \E t \in Tasks :
          \/ TxCall(t)
          \/ TxRetry(t)
          \/ TxFinish(t)
          \/ TxReturn(t)
    /\ UNCHANGED <<pinLast, bsVars, xVars, getVars>>

\* C14: with pin operations running concurrently, the tree is always the
\* one the committed operations give when run one after another in commit
\* order, and every result handed to a caller (is_pinned, query and the
\* others) is the one that serial run gives.
C14_Atomic ==
    /\ db = serial
    /\ \A t \in Tasks :
         ptx[t].pc = "done" => ptx[t].ret = ptx[t].serialRet

\* Observed while another task is converting the CID from Direct to
\* Recursive: is_pinned answers true.
C14_Witness ==
    \E t, u \in Tasks :
        /\ ptx[t].pc = "done"
        /\ ptx[t].call.name = "is_pinned"
        /\ ptx[t].ret.val
        /\ ptx[u].pc = "staged"
        /\ ptx[u].call.name = "insert_recursive_pin"
        /\ ptx[u].call.target = ptx[t].call.target
        /\ get_pin_key(ptx[u].call.target, "Direct") \in DOMAIN ptx[u].snap
        /\ ptx[u].call.refs /= {}

\* C15: however many times the body was run before it committed, the tree
\* the call leaves and the value it returns are those of one execution of
\* the body, with all the descendants the caller passed, on the tree the
\* call committed on.
C15_RetriesInvisible ==
    \A t \in Tasks :
        ptx[t].pc = "done"
            => LET one == RunBody(ptx[t].call, ptx[t].on, ptx[t].call.refs)
               IN /\ ptx[t].after = one.db
                  /\ ptx[t].ret = one.ret

\* A recursive insert that committed on its second or a later attempt and
\* wrote an indirect key.
C15_Witness ==
    \E t \in Tasks :
        /\ ptx[t].pc = "done"
        /\ ptx[t].attempts >= 1
        /\ ptx[t].call.name = "insert_recursive_pin"
        /\ ptx[t].on /= EmptyMap
        /\ \E d \in ptx[t].call.refs :
             /\ get_pin_key(d, "Indirect") \notin DOMAIN ptx[t].on
             /\ get_pin_key(d, "Indirect") \in DOMAIN ptx[t].after

(***************************************************************************)
(* Bitswap: blocks, messages and per-peer ledgers.                         *)
(***************************************************************************)
\* A block is its CID and the bytes the CID is the hash of.
Block(cid) == [cid |-> cid, data |-> <<"data", cid>>]

Blocks == {Block(cid) : cid \in BsCids}

\* Message::default()
Message_default == [want |-> EmptyMap, cancel |-> {}, blocks |-> <<>>]

Message_want_block(message, cid, priority) ==
    [message EXCEPT !.want = MapPut(@, cid, priority)]

\* Ledger::new()
Ledger_new ==
    [sent_want_list |-> EmptyMap,
     unsent_wants |-> {},
     received_want_list |-> EmptyMap,
     queued_blocks |-> <<>>,
     sent_cancels |-> {}]

Ledger_want_block(ledger, cid, priority) ==
    [ledger EXCEPT !.sent_want_list = MapPut(@, cid, priority),
                   !.unsent_wants = @ \cup {cid},
                   !.sent_cancels = @ \ {cid}]

Ledger_cancel_block(ledger, cid) ==
    IF cid \in DOMAIN ledger.sent_want_list
    THEN [ledger EXCEPT !.sent_want_list = MapDel(@, cid),
                        !.unsent_wants = @ \ {cid},
                        !.sent_cancels = @ \cup {cid}]
    ELSE ledger

Ledger_add_block(ledger, block) ==
    IF \E i \in DOMAIN ledger.queued_blocks : ledger.queued_blocks[i].cid = block.cid
    THEN ledger
    ELSE [ledger EXCEPT !.queued_blocks = Append(@, block)]

Ledger_wantlist(ledger) == ledger.received_want_list

\* Ledger::send(): the message, if any, and the ledger it leaves.
Ledger_send(ledger) ==
    IF /\ ledger.queued_blocks = <<>>
       /\ ledger.sent_cancels = {}
       /\ ledger.unsent_wants = {}
    THEN [some |-> FALSE, message |-> Message_default, ledger |-> ledger]
    ELSE [some |-> TRUE,
          message |-> [want |-> [c \in ledger.unsent_wants |-> ledger.sent_want_list[c]],
                       cancel |-> ledger.sent_cancels,
                       blocks |-> ledger.queued_blocks],
          ledger |-> [ledger EXCEPT !.unsent_wants = {},
                                    !.sent_cancels = {},
                                    !.queued_blocks = <<>>]]

(***************************************************************************)
(* Bitswap: the events the behaviour hands to the swarm.                   *)
(***************************************************************************)
NoOut == [kind |-> "None", peer |-> 0, cid |-> 0, priority |-> 0, data |-> <<>>]

ReceivedBlock(peer, block) ==
    [kind |-> "ReceivedBlock", peer |-> peer, cid |-> block.cid, priority |-> 0,
     data |-> block.data]

ReceivedWant(peer, cid, priority) ==
    [kind |-> "ReceivedWant", peer |-> peer, cid |-> cid, priority |-> priority,
     data |-> <<>>]

ReceivedCancel(peer, cid) ==
    [kind |-> "ReceivedCancel", peer |-> peer, cid |-> cid, priority |-> 0,
     data |-> <<>>]

Dial(peer_id) ==
    [type |-> "Dial", peer |-> peer_id, message |-> Message_default, out |-> NoOut]

NotifyHandler(peer_id, message) ==
    [type |-> "NotifyHandler", peer |-> peer_id, message |-> message, out |-> NoOut]

GenerateEvent(event) ==
    [type |-> "GenerateEvent", peer |-> 0, message |-> Message_default, out |-> event]

\* Poll::Pending
Pending ==
    [type |-> "Pending", peer |-> 0, message |-> Message_default, out |-> NoOut]

NoReturn ==
    [type |-> "None", peer |-> 0, message |-> Message_default, out |-> NoOut]

Stats_default == [sent_blocks |-> 0]

\* Mutant: the counter counts messages.
StatsCountsMessages(stats, num_blocks) ==
    [stats EXCEPT !.sent_blocks = @ + 1]

Stats_update_outgoing(stats, num_blocks) ==
    [stats EXCEPT !.sent_blocks = @ + num_blocks]

(***************************************************************************)
(* Bitswap: the behaviour, as functions of its state b.                    *)
(***************************************************************************)
Bitswap_default ==
    [events |-> <<>>,
     target_peers |-> {},
     connected_peers |-> EmptyMap,
     wanted_blocks |-> EmptyMap,
     ready_blocks |-> <<>>,
     dont_have_rx |-> <<>>,
     stats |-> EmptyMap]

local_wantlist(b) == b.wanted_blocks

\* Mutant: every call enqueues a Dial.
ConnectAlwaysDials(b, peer_id) ==
    [b EXCEPT !.target_peers = @ \cup {peer_id},
              !.events = Append(@, Dial(peer_id))]

connect(b, peer_id) ==
    IF peer_id \notin b.target_peers
    THEN [b EXCEPT !.target_peers = @ \cup {peer_id},
                   !.events = Append(@, Dial(peer_id))]
    ELSE b

\* Mutant: a peer that is not connected gets a ledger for the block.
SendBlockCreatesLedger(b, peer_id, block) ==
    IF peer_id \in DOMAIN b.connected_peers
    THEN [b EXCEPT !.connected_peers[peer_id] = Ledger_add_block(@, block)]
    ELSE [b EXCEPT !.connected_peers =
                       MapPut(@, peer_id, Ledger_add_block(Ledger_new, block))]

send_block(b, peer_id, block) ==
    IF peer_id \in DOMAIN b.connected_peers
    THEN [b EXCEPT !.connected_peers[peer_id] = Ledger_add_block(@, block)]
    ELSE b

RECURSIVE WantAll(_, _, _)
WantAll(message, wanted, cids) ==
    IF cids = {} THEN message
    ELSE LET cid == CHOOSE c \in cids : TRUE
         IN WantAll(Message_want_block(message, cid, wanted[cid]), wanted, cids \ {cid})

send_want_list(b, peer_id) ==
    IF b.wanted_blocks /= EmptyMap
    THEN LET message == WantAll(Message_default, b.wanted_blocks, DOMAIN b.wanted_blocks)
         IN [b EXCEPT !.events = Append(@, NotifyHandler(peer_id, message))]
    ELSE b

\* Mutant: the want is entered in the ledgers and a cancel still to be sent
\* for the same CID is left in place.
WantBlockKeepsCancels(b, cid, priority) ==
    [b EXCEPT !.connected_peers =
                  [p \in DOMAIN @ |->
                      [@[p] EXCEPT !.sent_want_list = MapPut(@, cid, priority),
                                   !.unsent_wants = @ \cup {cid}]],
              !.wanted_blocks = MapPut(@, cid, priority)]

want_block(b, cid, priority) ==
    [b EXCEPT !.connected_peers =
                  [p \in DOMAIN @ |-> Ledger_want_block(@[p], cid, priority)],
              !.wanted_blocks = MapPut(@, cid, priority)]

\* Mutant: the list of peers is not looked at.
WantFromAllPeers(b, cid, priority, peers) ==
    [b EXCEPT !.connected_peers =
                  [p \in DOMAIN @ |-> Ledger_want_block(@[p], cid, priority)],
              !.wanted_blocks = MapPut(@, cid, priority)]

want_block_from_peers(b, cid, priority, peers) ==
    [b EXCEPT !.connected_peers =
                  [p \in DOMAIN @ |->
                      IF p \in peers
                      THEN Ledger_want_block(@[p], cid, priority)
                      ELSE @[p]],
              !.wanted_blocks = MapPut(@, cid, priority)]

dont_have(b, cid) ==
    [b EXCEPT !.connected_peers =
                  [p \in DOMAIN @ |->
                      [@[p] EXCEPT !.received_want_list = MapDel(@, cid)]]]

dont_have_for_peer(b, peer_id, cid) ==
    IF peer_id \in DOMAIN b.connected_peers
    THEN [b EXCEPT !.connected_peers[peer_id].received_want_list = MapDel(@, cid)]
    ELSE b

\* Mutant: the ledgers are not told.
CancelOnlyGlobal(b, cid) ==
    [b EXCEPT !.wanted_blocks = MapDel(@, cid)]

cancel_block(b, cid) ==
    [b EXCEPT !.connected_peers =
                  [p \in DOMAIN @ |-> Ledger_cancel_block(@[p], cid)],
              !.wanted_blocks = MapDel(@, cid)]

\* Mutant: the stats entry of the peer is created anew on every connection.
EstablishedResetsStats(b, peer_id) ==
    LET b1 == [b EXCEPT !.target_peers = @ \ {peer_id},
                        !.stats = MapPut(@, peer_id, Stats_default),
                        !.connected_peers = MapPut(@, peer_id, Ledger_new)]
    IN send_want_list(b1, peer_id)

ConnectionEstablished(b, peer_id) ==
    LET b1 == [b EXCEPT !.target_peers = @ \ {peer_id},
                        !.stats = IF peer_id \in DOMAIN @
                                  THEN @
                                  ELSE MapPut(@, peer_id, Stats_default),
                        !.connected_peers = MapPut(@, peer_id, Ledger_new)]
    IN send_want_list(b1, peer_id)

\* Mutant: the stats of the peer go with its ledger.
ClosedDropsStats(b, peer_id) ==
    [b EXCEPT !.connected_peers = MapDel(@, peer_id),
              !.stats = MapDel(@, peer_id)]

ConnectionClosed(b, peer_id) ==
    [b EXCEPT !.connected_peers = MapDel(@, peer_id)]

\* The incoming cancel list, in the order the message iterates it.
RECURSIVE ProcessCancels(_, _, _)
ProcessCancels(b, source, cancels) ==
    IF cancels = <<>> THEN b
    ELSE LET cid == Head(cancels)
             b1 == [b EXCEPT
                      !.connected_peers[source].received_want_list = MapDel(@, cid),
                      !.events = Append(@, GenerateEvent(ReceivedCancel(source, cid)))]
         IN ProcessCancels(b1, source, Tail(cancels))

\* Mutant: every want entry is recorded and reported.
RECURSIVE ProcessWantsNoFilter(_, _, _, _, _)
ProcessWantsNoFilter(b, source, want, cids, current_wantlist) ==
    IF cids = <<>> THEN b
    ELSE LET cid == Head(cids)
             b1 == [b EXCEPT
                      !.connected_peers[source].received_want_list =
                          MapPut(@, cid, want[cid]),
                      !.events = Append(@,
                          GenerateEvent(ReceivedWant(source, cid, want[cid])))]
         IN ProcessWantsNoFilter(b1, source, want, Tail(cids), current_wantlist)

\* The incoming wantlist, without the CIDs of our own wantlist.
RECURSIVE ProcessWants(_, _, _, _, _)
ProcessWants(b, source, want, cids, current_wantlist) ==
    IF cids = <<>> THEN b
    ELSE LET cid == Head(cids)
             b1 == IF cid \in DOMAIN current_wantlist
                   THEN b
                   ELSE [b EXCEPT
                           !.connected_peers[source].received_want_list =
                               MapPut(@, cid, want[cid]),
                           !.events = Append(@,
                               GenerateEvent(ReceivedWant(source, cid, want[cid])))]
         IN ProcessWants(b1, source, want, Tail(cids), current_wantlist)

\* Mutant: a received block does not cancel the want.
RECURSIVE ProcessBlocksNoCancel(_, _, _)
ProcessBlocksNoCancel(b, source, blocks) ==
    IF blocks = <<>> THEN b
    ELSE ProcessBlocksNoCancel(
             [b EXCEPT !.events =
                 Append(@, GenerateEvent(ReceivedBlock(source, Head(blocks))))],
             source, Tail(blocks))

\* Mutant: only the first block of a message is handled.
ProcessBlocksFirstOnly(b, source, blocks) ==
    IF blocks = <<>> THEN b
    ELSE LET block == Head(blocks)
             b1 == cancel_block(b, block.cid)
         IN [b1 EXCEPT
               !.events = Append(@, GenerateEvent(ReceivedBlock(source, block)))]

RECURSIVE ProcessBlocks(_, _, _)
ProcessBlocks(b, source, blocks) ==
    IF blocks = <<>> THEN b
    ELSE LET block == Head(blocks)
             b1 == cancel_block(b, block.cid)
             b2 == [b1 EXCEPT
                      !.events = Append(@, GenerateEvent(ReceivedBlock(source, block)))]
         IN ProcessBlocks(b2, source, Tail(blocks))

\* MessageWrapper::Tx and MessageWrapper::Rx(msg)
WrapperTx == [tx |-> TRUE, message |-> Message_default]

WrapperRx(message) == [tx |-> FALSE, message |-> message]

\* Mutant: the wantlist of the message is processed before its cancels.
HandlerWantsBeforeCancels(b, source, wrapper, cancel_order, want_order) ==
    IF wrapper.tx THEN b
    ELSE LET message == wrapper.message
             current_wantlist == local_wantlist(b)
         IN IF source \notin DOMAIN b.connected_peers
            THEN b
            ELSE LET b1 == ProcessWants(b, source, message.want, want_order,
                                        current_wantlist)
                     b2 == ProcessCancels(b1, source, cancel_order)
                 IN ProcessBlocks(b2, source, message.blocks)

\* Mutant: the blocks of a message are handled whether or not the source
\* has a ledger.
HandlerBlocksOfStranger(b, source, wrapper, cancel_order, want_order) ==
    IF wrapper.tx THEN b
    ELSE LET message == wrapper.message
             current_wantlist == local_wantlist(b)
         IN IF source \notin DOMAIN b.connected_peers
            THEN ProcessBlocks(b, source, message.blocks)
            ELSE LET b1 == ProcessCancels(b, source, cancel_order)
                     b2 == ProcessWants(b1, source, message.want, want_order,
                                        current_wantlist)
                 IN ProcessBlocks(b2, source, message.blocks)

on_connection_handler_event(b, source, wrapper, cancel_order, want_order) ==
    IF wrapper.tx THEN b
    ELSE LET message == wrapper.message
             current_wantlist == local_wantlist(b)
         IN IF source \notin DOMAIN b.connected_peers
            THEN b
            ELSE LET b1 == ProcessCancels(b, source, cancel_order)
                     b2 == ProcessWants(b1, source, message.want, want_order,
                                        current_wantlist)
                 IN ProcessBlocks(b2, source, message.blocks)

RECURSIVE DrainDontHave(_)
DrainDontHave(b) ==
    IF b.dont_have_rx = <<>> THEN b
    ELSE LET item == Head(b.dont_have_rx)
             b1 == [b EXCEPT !.dont_have_rx = Tail(@)]
         IN DrainDontHave(dont_have_for_peer(b1, item[1], item[2]))

RECURSIVE DrainReadyBlocks(_)
DrainReadyBlocks(b) ==
    IF b.ready_blocks = <<>> THEN b
    ELSE LET item == Head(b.ready_blocks)
             b1 == [b EXCEPT !.ready_blocks = Tail(@)]
         IN DrainReadyBlocks(send_block(b1, item[1], item[2]))

\* Mutant: only the first ledger of the iteration is asked.
SendFirstOnlyHead(b, order) ==
    IF order = <<>> THEN [b |-> b, ret |-> Pending]
    ELSE LET peer_id == Head(order)
             sent == Ledger_send(b.connected_peers[peer_id])
         IN IF sent.some
            THEN LET b1 == [b EXCEPT !.connected_peers[peer_id] = sent.ledger]
                     b2 == IF peer_id \in DOMAIN b1.stats
                           THEN [b1 EXCEPT !.stats[peer_id] =
                                    Stats_update_outgoing(@, Len(sent.message.blocks))]
                           ELSE b1
                 IN [b |-> b2, ret |-> NotifyHandler(peer_id, sent.message)]
            ELSE [b |-> b, ret |-> Pending]

\* The first ledger, in iteration order, that has a message to send.
RECURSIVE SendFirst(_, _)
SendFirst(b, order) ==
    IF order = <<>> THEN [b |-> b, ret |-> Pending]
    ELSE LET peer_id == Head(order)
             sent == Ledger_send(b.connected_peers[peer_id])
         IN IF sent.some
            THEN LET b1 == [b EXCEPT !.connected_peers[peer_id] = sent.ledger]
                     b2 == IF peer_id \in DOMAIN b1.stats
                           THEN [b1 EXCEPT !.stats[peer_id] =
                                    Stats_update_outgoing(@, Len(sent.message.blocks))]
                           ELSE b1
                 IN [b |-> b2, ret |-> NotifyHandler(peer_id, sent.message)]
            ELSE SendFirst(b, Tail(order))

\* Mutant: the newest event is returned first.
PollPopsBack(b, order) ==
    IF b.events /= <<>>
    THEN [b |-> [b EXCEPT !.events = SubSeq(@, 1, Len(@) - 1)],
          ret |-> b.events[Len(b.events)]]
    ELSE SendFirst(DrainReadyBlocks(DrainDontHave(b)), order)

\* Mutant: one step per call, a drained channel ends the call.
PollOneStep(b, order) ==
    IF b.events /= <<>>
    THEN [b |-> [b EXCEPT !.events = Tail(@)], ret |-> Head(b.events)]
    ELSE IF b.dont_have_rx /= <<>>
    THEN [b |-> DrainDontHave(b), ret |-> Pending]
    ELSE IF b.ready_blocks /= <<>>
    THEN [b |-> DrainReadyBlocks(b), ret |-> Pending]
    ELSE SendFirst(b, order)

\* poll, with the iteration order of connected_peers.
poll(b, order) ==
    IF b.events /= <<>>
    THEN [b |-> [b EXCEPT !.events = Tail(@)], ret |-> Head(b.events)]
    ELSE SendFirst(DrainReadyBlocks(DrainDontHave(b)), order)

(***************************************************************************)
(* Bitswap actions.  A call on the behaviour runs in one step and leaves   *)
(* in bsLast its arguments, what it returned, and the behaviour it ran on  *)
(* (pre).  BsReturn gives control back to the caller; after remembers the  *)
(* call that directly preceded the current one.                            *)
(***************************************************************************)
NoCallBefore == [op |-> "none", arg |-> 0]

BsIdle(after) ==
    [op |-> "none", peer |-> 0, cid |-> 0, priority |-> 0, peers |-> {},
     wrapper |-> WrapperTx, ret |-> NoReturn, pre |-> Bitswap_default,
     after |-> after]

\* The messages a remote peer can send.
InMessages ==
    {m \in [want : UNION {[S -> Prios] : S \in SUBSET BsCids},
            cancel : SUBSET BsCids,
            blocks : UNION {[1 .. n -> Blocks] : n \in 0 .. MaxMsgItems}] :
        Cardinality(DOMAIN m.want) + Cardinality(m.cancel) + Len(m.blocks)
            \in 1 .. MaxMsgItems}

\* Blocks handed to peer_id and not yet counted against the peer's budget.
Committed(b, peer_id) ==
    (IF peer_id \in DOMAIN b.stats THEN b.stats[peer_id].sent_blocks ELSE 0)
    + (IF peer_id \in DOMAIN b.connected_peers
       THEN Len(b.connected_peers[peer_id].queued_blocks)
       ELSE 0)
    + Cardinality({i \in DOMAIN b.ready_blocks : b.ready_blocks[i][1] = peer_id})

BsCall(op, peer, cid, priority, peers, wrapper, b, ret) ==
    /\ bsLast.op = "none"
    /\ Len(b.events) <= MaxEvents
    /\ bs' = b
    /\ bsLast' = [op |-> op, peer |-> peer, cid |-> cid, priority |-> priority,
                  peers |-> peers, wrapper |-> wrapper, ret |-> ret, pre |-> bs,
                  after |-> bsLast.after]

Connect ==
    \E peer_id \in Peers :
        /\ BsCall("connect", peer_id, 0, 0, {}, WrapperTx, connect(bs, peer_id), NoReturn)
        /\ UNCHANGED conns

SendBlock ==
    \E peer_id \in Peers, block \in Blocks :
        /\ Committed(bs, peer_id) < MaxSentBlocks
        /\ BsCall("send_block", peer_id, block.cid, 0, {}, WrapperTx,
                  send_block(bs, peer_id, block), NoReturn)
        /\ UNCHANGED conns

WantBlock ==
    \E cid \in BsCids, priority \in Prios :
        /\ BsCall("want_block", 0, cid, priority, {}, WrapperTx,
                  want_block(bs, cid, priority), NoReturn)
        /\ UNCHANGED conns

WantBlockFromPeers ==
    \E cid \in BsCids, priority \in Prios, peers \in SUBSET Peers :
        /\ BsCall("want_block_from_peers", 0, cid, priority, peers, WrapperTx,
                  want_block_from_peers(bs, cid, priority, peers), NoReturn)
        /\ UNCHANGED conns

DontHave ==
    \E cid \in BsCids :
        /\ BsCall("dont_have", 0, cid, 0, {}, WrapperTx, dont_have(bs, cid), NoReturn)
        /\ UNCHANGED conns

DontHaveForPeer ==
    \E peer_id \in Peers, cid \in BsCids :
        /\ BsCall("dont_have_for_peer", peer_id, cid, 0, {}, WrapperTx,
                  dont_have_for_peer(bs, peer_id, cid), NoReturn)
        /\ UNCHANGED conns

CancelBlock ==
    \E cid \in BsCids :
        /\ BsCall("cancel_block", 0, cid, 0, {}, WrapperTx, cancel_block(bs, cid),
                  NoReturn)
        /\ UNCHANGED conns

\* The swarm reports a new connection to peer_id (the first or a further one).
SwarmConnectionEstablished ==
    \E peer_id \in Peers :
        /\ conns[peer_id] < MaxConns
        /\ BsCall("ConnectionEstablished", peer_id, 0, 0, {}, WrapperTx,
                  ConnectionEstablished(bs, peer_id), NoReturn)
        /\ conns' = [conns EXCEPT ![peer_id] = @ + 1]

\* The swarm reports that one connection to peer_id was closed.
SwarmConnectionClosed ==
    \E peer_id \in Peers :
        /\ conns[peer_id] > 0
        /\ BsCall("ConnectionClosed", peer_id, 0, 0, {}, WrapperTx,
                  ConnectionClosed(bs, peer_id), NoReturn)
        /\ conns' = [conns EXCEPT ![peer_id] = @ - 1]

\* A connection handler of source reports a sent or a received message.
HandlerTx ==
    \E source \in Peers :
        /\ conns[source] > 0
        /\ BsCall("handler_event", source, 0, 0, {}, WrapperTx,
                  on_connection_handler_event(bs, source, WrapperTx, <<>>, <<>>),
                  NoReturn)
        /\ UNCHANGED conns

HandlerRx ==
    \E source \in Peers, message \in InMessages :
        \E cancel_order \in Orders(message.cancel),
           want_order \in Orders(DOMAIN message.want) :
            /\ conns[source] > 0
            /\ BsCall("handler_event", source, 0, 0, {}, WrapperRx(message),
                      on_connection_handler_event(bs, source, WrapperRx(message),
                                                  cancel_order, want_order),
                      NoReturn)
            /\ UNCHANGED conns

\* A background producer sends on the queued_blocks channel.
QueueBlock ==
    \E peer_id \in Peers, block \in Blocks :
        /\ Len(bs.ready_blocks) < MaxChan
        /\ Committed(bs, peer_id) < MaxSentBlocks
        /\ BsCall("queued_blocks.send", peer_id, block.cid, 0, {}, WrapperTx,
                  [bs EXCEPT !.ready_blocks = Append(@, <<peer_id, block>>)], NoReturn)
        /\ UNCHANGED conns

\* A background producer sends on the dont_have_tx channel.
QueueDontHave ==
    \E peer_id \in Peers, cid \in BsCids :
        /\ Len(bs.dont_have_rx) < MaxChan
        /\ BsCall("dont_have_tx.send", peer_id, cid, 0, {}, WrapperTx,
                  [bs EXCEPT !.dont_have_rx = Append(@, <<peer_id, cid>>)], NoReturn)
        /\ UNCHANGED conns

Poll ==
    \E order \in Orders(DOMAIN bs.connected_peers) :
        LET r == poll(bs, order)
        IN /\ BsCall("poll", 0, 0, 0, {}, WrapperTx, r.b, r.ret)
           /\ UNCHANGED conns

BsReturn ==
    /\ bsLast.op /= "none"
    /\ bsLast' = BsIdle(CASE bsLast.op = "want_block" ->
                               [op |-> "want_block", arg |-> bsLast.cid]
                          [] bsLast.op = "connect" ->
                               [op |-> "connect", arg |-> bsLast.peer]
                          [] OTHER -> NoCallBefore)
    /\ UNCHANGED <<bs, conns>>

(***************************************************************************)
(* One inbound message at a time: a behaviour with wants of its own and    *)
(* connected peers receives messages that carry several entries.           *)
(***************************************************************************)
HCids == 1 .. NumHCids

\* The messages a remote peer can send about these CIDs.
HMessages ==
    {m \in [want : UNION {[S -> Prios] : S \in SUBSET HCids},
            cancel : SUBSET HCids,
            blocks : UNION {[1 .. n -> {Block(cid) : cid \in HCids}] : n \in 0 .. MaxHItems}] :
        Cardinality(DOMAIN m.want) + Cardinality(m.cancel) + Len(m.blocks)
            \in 1 .. MaxHItems}

\* The calls made so far.
HCalls == IF "calls" \in DOMAIN bsLast THEN bsLast.calls ELSE 0

HCall(op, peer, cid, priority, wrapper, b, ret, cancel_order, want_order) ==
    /\ bsLast.op = "none"
    /\ HCalls < MaxHCalls
    /\ Len(bs.events) <= MaxHEvents
    /\ bs' = b
    /\ bsLast' = [op |-> op, peer |-> peer, cid |-> cid, priority |-> priority,
                  peers |-> {}, wrapper |-> wrapper, ret |-> ret, pre |-> bs,
                  after |-> bsLast.after, cancel_order |-> cancel_order,
                  want_order |-> want_order, calls |-> HCalls + 1]

HWantBlock ==
    \E cid \in HCids, priority \in Prios :
        /\ HCall("want_block", 0, cid, priority, WrapperTx,
                 want_block(bs, cid, priority), NoReturn, <<>>, <<>>)
        /\ UNCHANGED conns

HConnectionEstablished ==
    \E peer_id \in Peers :
        /\ conns[peer_id] < MaxConns
        /\ HCall("ConnectionEstablished", peer_id, 0, 0, WrapperTx,
                 ConnectionEstablished(bs, peer_id), NoReturn, <<>>, <<>>)
        /\ conns' = [conns EXCEPT ![peer_id] = @ + 1]

HRx ==
    /\ bsLast.op = "none"
    /\ HCalls < MaxHCalls
    /\ Len(bs.events) <= MaxHEvents
    /\ \E source \in {p \in Peers : conns[p] > 0}, message \in HMessages :
        \E cancel_order \in Orders(message.cancel),
           want_order \in Orders(DOMAIN message.want) :
            /\ conns[source] > 0
            /\ HCall("handler_rx", source, 0, 0, WrapperRx(message),
                     on_connection_handler_event(bs, source, WrapperRx(message),
                                                 cancel_order, want_order),
                     NoReturn, cancel_order, want_order)
            /\ UNCHANGED conns

HPoll ==
    \E order \in Orders(DOMAIN bs.connected_peers) :
        LET r == poll(bs, order)
        IN /\ bsLast.op = "none"
           /\ r.ret.type /= "Pending"
           /\ bs' = r.b
           /\ UNCHANGED <<bsLast, conns>>

\* The call returns.
HReturn ==
    /\ bsLast.op /= "none"
    /\ bsLast' = BsIdle(NoCallBefore) @@ [calls |-> bsLast.calls]
    /\ UNCHANGED <<bs, conns>>

BsInit ==
    /\ bs = Bitswap_default
    /\ conns = [p \in Peers |-> 0]
    /\ bsLast = BsIdle(NoCallBefore)

(***************************************************************************)
(* Properties of the Bitswap behaviour (checked under SpecBitswap).        *)
(***************************************************************************)
\* C1: for every connected peer P and every CID c in wanted_blocks, c is in
\* P's ledger sent_want_list with the priority it has in wanted_blocks.
C1_WantlistMirrored ==
    \A p \in DOMAIN bs.connected_peers, c \in DOMAIN bs.wanted_blocks :
        /\ c \in DOMAIN bs.connected_peers[p].sent_want_list
        /\ bs.connected_peers[p].sent_want_list[c] = bs.wanted_blocks[c]

\* C4: with peers connected, right after want_block(C, _) followed by
\* cancel_block(C), C is no longer wanted and the message each connected
\* ledger sends next (the one poll dispatches to that peer) has C in its
\* cancel list and not in its want list.
C4_CancelPropagation ==
    (bsLast.op = "cancel_block"
        /\ bsLast.after = [op |-> "want_block", arg |-> bsLast.cid])
        => /\ bsLast.cid \notin DOMAIN bs.wanted_blocks
           /\ DOMAIN bsLast.pre.wanted_blocks \subseteq {bsLast.cid}
                => bs.wanted_blocks = EmptyMap
           /\ \A p \in DOMAIN bs.connected_peers :
                LET sent == Ledger_send(bs.connected_peers[p])
                IN /\ sent.some
                   /\ bsLast.cid \in sent.message.cancel
                   /\ bsLast.cid \notin DOMAIN sent.message.want
           /\ \A order \in Orders(DOMAIN bs.connected_peers) :
                (bs.events = <<>> /\ order /= <<>>)
                    => LET r == poll(bs, order).ret
                       IN /\ r.type = "NotifyHandler"
                          /\ r.peer = order[1]
                          /\ bsLast.cid \in r.message.cancel
                          /\ bsLast.cid \notin DOMAIN r.message.want

\* Two peers are connected when the want is cancelled.
C4_Witness ==
    /\ bsLast.op = "cancel_block"
    /\ bsLast.after = [op |-> "want_block", arg |-> bsLast.cid]
    /\ Cardinality(DOMAIN bs.connected_peers) >= 2
    /\ bs.events = <<>>
    /\ bs.wanted_blocks = EmptyMap

C26_WantFromPeers ==
    bsLast.op = "want_block_from_peers"
        => LET pre == bsLast.pre
               cid == bsLast.cid
           IN /\ bs.wanted_blocks = [c \in DOMAIN pre.wanted_blocks \cup {cid} |->
                                        IF c = cid THEN bsLast.priority
                                        ELSE pre.wanted_blocks[c]]
              /\ DOMAIN bs.connected_peers = DOMAIN pre.connected_peers
              /\ \A p \in DOMAIN pre.connected_peers :
                    LET old == pre.connected_peers[p]
                        new == bs.connected_peers[p]
                    IN IF p \in bsLast.peers
                       THEN /\ DOMAIN new.sent_want_list =
                                   DOMAIN old.sent_want_list \cup {cid}
                            /\ new.sent_want_list[cid] = bsLast.priority
                            /\ \A c \in DOMAIN old.sent_want_list \ {cid} :
                                   new.sent_want_list[c] = old.sent_want_list[c]
                            /\ new.unsent_wants = old.unsent_wants \cup {cid}
                            /\ new.sent_cancels = old.sent_cancels \ {cid}
                            /\ new.received_want_list = old.received_want_list
                            /\ new.queued_blocks = old.queued_blocks
                       ELSE new = old
              /\ bs.events = pre.events
              /\ bs.target_peers = pre.target_peers
              /\ bs.stats = pre.stats

\* Two peers are connected and one of them is listed; its ledger changes.
C26_Witness ==
    /\ bsLast.op = "want_block_from_peers"
    /\ Cardinality(DOMAIN bs.connected_peers) = 2
    /\ Cardinality(bsLast.peers) = 1
    /\ \E p \in bsLast.peers :
          bs.connected_peers[p] /= bsLast.pre.connected_peers[p]

\* A listed peer is not connected while the other listed peer is.
WantFromStranger ==
    /\ bsLast.op = "want_block_from_peers"
    /\ Cardinality(bsLast.peers) = 2
    /\ Cardinality(DOMAIN bs.connected_peers) = 1

(***************************************************************************)
(* Connections coming and going: the user dials, wants and sends blocks    *)
(* while the swarm reports connections established and closed.             *)
(***************************************************************************)
SCall(op, peer, cid, priority, b) ==
    /\ bsLast.op = "none"
    /\ HCalls < MaxSCalls
    /\ Len(bs.events) <= MaxHEvents
    /\ bs' = b
    /\ bsLast' = [op |-> op, peer |-> peer, cid |-> cid, priority |-> priority,
                  peers |-> {}, wrapper |-> WrapperTx, ret |-> NoReturn, pre |-> bs,
                  after |-> bsLast.after, calls |-> HCalls + 1]

SConnect ==
    \E peer_id \in Peers :
        /\ SCall("connect", peer_id, 0, 0, connect(bs, peer_id))
        /\ UNCHANGED conns

SWantBlock ==
    \E cid \in HCids, priority \in Prios :
        /\ SCall("want_block", 0, cid, priority, want_block(bs, cid, priority))
        /\ UNCHANGED conns

SSendBlock ==
    \E peer_id \in Peers, block \in Blocks :
        /\ Committed(bs, peer_id) < MaxSentBlocks
        /\ SCall("send_block", peer_id, block.cid, 0, send_block(bs, peer_id, block))
        /\ UNCHANGED conns

SConnectionEstablished ==
    \E peer_id \in Peers :
        /\ conns[peer_id] < MaxConns
        /\ SCall("ConnectionEstablished", peer_id, 0, 0,
                 ConnectionEstablished(bs, peer_id))
        /\ conns' = [conns EXCEPT ![peer_id] = @ + 1]

SConnectionClosed ==
    \E peer_id \in Peers :
        /\ conns[peer_id] > 0
        /\ SCall("ConnectionClosed", peer_id, 0, 0, ConnectionClosed(bs, peer_id))
        /\ conns' = [conns EXCEPT ![peer_id] = @ - 1]

\* C19: after ConnectionEstablished(p), p is not a dial target, has a
\* ledger and a stats entry (the entry it had, if any); when wanted_blocks
\* is not empty exactly one event was appended, a NotifyHandler for p whose
\* message wants every CID of wanted_blocks with its priority and carries
\* nothing else; when it is empty no event was appended.
C19_ConnectionEstablished ==
    bsLast.op = "ConnectionEstablished"
        => LET peer == bsLast.peer
               pre == bsLast.pre
           IN /\ peer \notin bs.target_peers
              /\ bs.target_peers = pre.target_peers \ {peer}
              /\ peer \in DOMAIN bs.connected_peers
              /\ peer \in DOMAIN bs.stats
              /\ \A q \in DOMAIN pre.stats :
                   q \in DOMAIN bs.stats /\ bs.stats[q] = pre.stats[q]
              /\ bs.wanted_blocks = pre.wanted_blocks
              /\ IF pre.wanted_blocks = EmptyMap
                 THEN bs.events = pre.events
                 ELSE /\ Len(bs.events) = Len(pre.events) + 1
                      /\ SubSeq(bs.events, 1, Len(pre.events)) = pre.events
                      /\ LET event == bs.events[Len(bs.events)]
                         IN /\ event.type = "NotifyHandler"
                            /\ event.peer = peer
                            /\ event.message.want = pre.wanted_blocks
                            /\ event.message.cancel = {}
                            /\ event.message.blocks = <<>>

\* A dial target connects while two CIDs are wanted and an event is queued.
C19_Witness ==
    /\ bsLast.op = "ConnectionEstablished"
    /\ bsLast.peer \in bsLast.pre.target_peers
    /\ Cardinality(DOMAIN bsLast.pre.wanted_blocks) = 2
    /\ bsLast.pre.events /= <<>>
    /\ Len(bs.events) = Len(bsLast.pre.events) + 1

\* The swarm reports a further connection to peer_id, up to MaxPeerConns.
KConnectionEstablished ==
    \E peer_id \in Peers :
        /\ conns[peer_id] < MaxPeerConns
        /\ SCall("ConnectionEstablished", peer_id, 0, 0,
                 ConnectionEstablished(bs, peer_id))
        /\ conns' = [conns EXCEPT ![peer_id] = @ + 1]

\* C35 as stated: a peer has a ledger exactly when it has an established
\* connection, and a ConnectionEstablished for a peer that has a ledger
\* keeps the received_want_list, sent_want_list and queued blocks of it.
C35_LedgerIffConnected ==
    /\ \A p \in Peers : p \in DOMAIN bs.connected_peers <=> conns[p] > 0
    /\ (bsLast.op = "ConnectionEstablished"
         /\ bsLast.peer \in DOMAIN bsLast.pre.connected_peers)
          => LET old == bsLast.pre.connected_peers[bsLast.peer]
                 new == bs.connected_peers[bsLast.peer]
             IN /\ new.received_want_list = old.received_want_list
                /\ new.sent_want_list = old.sent_want_list
                /\ new.queued_blocks = old.queued_blocks

\* C33 as stated: no peer is in target_peers and in connected_peers at the
\* same time.
C33_TargetsNotConnected ==
    bs.target_peers \cap DOMAIN bs.connected_peers = {}

\* C20: ConnectionClosed(p) removes the ledger of p and leaves the stats
\* (the entry of p and its counters included), wanted_blocks, target_peers,
\* the events queue and the other ledgers as they were; and no step of the
\* behaviour ever removes a stats entry.
C20_ConnectionClosed ==
    /\ [](bsLast.op = "ConnectionClosed"
            => /\ bsLast.peer \notin DOMAIN bs.connected_peers
               /\ bs.connected_peers = MapDel(bsLast.pre.connected_peers, bsLast.peer)
               /\ bsLast.peer \in DOMAIN bs.stats
               /\ bs.stats = bsLast.pre.stats
               /\ bs.wanted_blocks = bsLast.pre.wanted_blocks
               /\ bs.target_peers = bsLast.pre.target_peers
               /\ bs.events = bsLast.pre.events)
    /\ [][DOMAIN bs.stats \subseteq DOMAIN bs'.stats]_vars

\* The connection of a peer that was sent a block closes while a block is
\* wanted and another peer is connected.
C20_Witness ==
    /\ bsLast.op = "ConnectionClosed"
    /\ bsLast.peer \in DOMAIN bsLast.pre.connected_peers
    /\ bs.stats[bsLast.peer].sent_blocks >= 1
    /\ bs.wanted_blocks /= EmptyMap
    /\ bs.connected_peers /= EmptyMap

(***************************************************************************)
(* The scheduler step: the user sends blocks and wants, background tasks   *)
(* fill the two channels, peers send messages, and the swarm polls.        *)
(* dispatched counts, per peer, the blocks of the ledger messages that     *)
(* poll has returned.                                                      *)
(***************************************************************************)
PBlocks == {Block(cid) : cid \in HCids}

\* The messages a remote peer sends here: one want or one block.
PMessages ==
    {m \in HMessages :
        m.cancel = {} /\ Cardinality(DOMAIN m.want) + Len(m.blocks) = 1}

PDispatched ==
    IF "dispatched" \in DOMAIN bsLast THEN bsLast.dispatched ELSE [p \in Peers |-> 0]

PCall(op, peer, cid, priority, wrapper, b) ==
    /\ bsLast.op = "none"
    /\ HCalls < MaxPCalls
    /\ Len(bs.events) <= MaxHEvents
    /\ bs' = b
    /\ bsLast' = [op |-> op, peer |-> peer, cid |-> cid, priority |-> priority,
                  peers |-> {}, wrapper |-> wrapper, ret |-> NoReturn, pre |-> bs,
                  after |-> bsLast.after, calls |-> HCalls + 1,
                  dispatched |-> PDispatched]

PConnect ==
    \E peer_id \in Peers :
        /\ PCall("connect", peer_id, 0, 0, WrapperTx, connect(bs, peer_id))
        /\ UNCHANGED conns

PWantBlock ==
    \E cid \in HCids, priority \in Prios :
        /\ PCall("want_block", 0, cid, priority, WrapperTx,
                 want_block(bs, cid, priority))
        /\ UNCHANGED conns

PSendBlock ==
    \E peer_id \in Peers, block \in PBlocks :
        /\ PCall("send_block", peer_id, block.cid, 0, WrapperTx,
                 send_block(bs, peer_id, block))
        /\ UNCHANGED conns

PQueueBlock ==
    \E peer_id \in Peers, block \in PBlocks :
        /\ Len(bs.ready_blocks) < MaxChan
        /\ PCall("queued_blocks.send", peer_id, block.cid, 0, WrapperTx,
                 [bs EXCEPT !.ready_blocks = Append(@, <<peer_id, block>>)])
        /\ UNCHANGED conns

PQueueDontHave ==
    \E peer_id \in Peers, cid \in HCids :
        /\ Len(bs.dont_have_rx) < MaxChan
        /\ PCall("dont_have_tx.send", peer_id, cid, 0, WrapperTx,
                 [bs EXCEPT !.dont_have_rx = Append(@, <<peer_id, cid>>)])
        /\ UNCHANGED conns

PConnectionEstablished ==
    \E peer_id \in Peers :
        /\ conns[peer_id] < MaxConns
        /\ PCall("ConnectionEstablished", peer_id, 0, 0, WrapperTx,
                 ConnectionEstablished(bs, peer_id))
        /\ conns' = [conns EXCEPT ![peer_id] = @ + 1]

PConnectionClosed ==
    \E peer_id \in Peers :
        /\ conns[peer_id] > 0
        /\ PCall("ConnectionClosed", peer_id, 0, 0, WrapperTx,
                 ConnectionClosed(bs, peer_id))
        /\ conns' = [conns EXCEPT ![peer_id] = @ - 1]

PRx ==
    /\ bsLast.op = "none"
    /\ HCalls < MaxPCalls
    /\ Len(bs.events) <= MaxHEvents
    /\ \E source \in {p \in Peers : conns[p] > 0}, message \in PMessages :
        /\ PCall("handler_rx", source, 0, 0, WrapperRx(message),
                 on_connection_handler_event(bs, source, WrapperRx(message),
                                             <<>>, SortedSeq(DOMAIN message.want)))
        /\ UNCHANGED conns

\* poll is called whenever the swarm likes; it is not one of the counted calls.
PPoll ==
    /\ bsLast.op = "none"
    /\ \E order \in Orders(DOMAIN bs.connected_peers) :
        LET r == poll(bs, order)
            sent == bs.events = <<>> /\ r.ret.type = "NotifyHandler"
        IN /\ bs' = r.b
           /\ bsLast' = [op |-> "poll", peer |-> 0, cid |-> 0, priority |-> 0,
                         peers |-> {}, wrapper |-> WrapperTx, ret |-> r.ret,
                         pre |-> bs, after |-> bsLast.after, calls |-> HCalls,
                         dispatched |->
                             IF sent
                             THEN [PDispatched EXCEPT ![r.ret.peer] =
                                      @ + Len(r.ret.message.blocks)]
                             ELSE PDispatched]
    /\ UNCHANGED conns

PReturn ==
    /\ bsLast.op /= "none"
    /\ bsLast' = BsIdle(NoCallBefore)
                 @@ [calls |-> bsLast.calls, dispatched |-> PDispatched]
    /\ UNCHANGED <<bs, conns>>

(***************************************************************************)
(* Properties of the scheduler step (checked under SpecPoll).              *)
(***************************************************************************)
Polled == bsLast.op = "poll"

IsPrefix(s1, s2) == Len(s1) <= Len(s2) /\ SubSeq(s2, 1, Len(s1)) = s1

\* The ledger of peer p has something to send.
HasOutbound(b, p) ==
    \/ b.connected_peers[p].queued_blocks /= <<>>
    \/ b.connected_peers[p].sent_cancels /= {}
    \/ b.connected_peers[p].unsent_wants /= {}

\* The blocks of queue followed by the blocks that items brings for peer p,
\* a block already in the queue left out.
RECURSIVE QueueWith(_, _, _)
QueueWith(queue, items, p) ==
    IF items = <<>> THEN queue
    ELSE LET block == Head(items)[2]
             known == \E i \in DOMAIN queue : queue[i].cid = block.cid
         IN QueueWith(IF Head(items)[1] = p /\ ~known THEN Append(queue, block)
                      ELSE queue,
                      Tail(items), p)

\* The ledger of p once both channels of b are drained.
DrainedLedger(b, p) ==
    LET ledger == b.connected_peers[p]
        gone == {b.dont_have_rx[i][2] :
                    i \in {j \in DOMAIN b.dont_have_rx : b.dont_have_rx[j][1] = p}}
    IN [ledger EXCEPT
          !.received_want_list = [c \in DOMAIN @ \ gone |-> @[c]],
          !.queued_blocks = QueueWith(@, b.ready_blocks, p)]

\* The connected peers whose ledger poll has taken a message from.
DispatchedTo ==
    {p \in DOMAIN bsLast.pre.connected_peers :
        bs.connected_peers[p] /= DrainedLedger(bsLast.pre, p)}

\* C21: poll returns the events first in, first out.  While the queue is
\* not empty poll returns its head and changes nothing else (no channel is
\* drained, no ledger is asked for a message), and every other call leaves
\* the queued events in place and in order, adding at the back only: so the
\* events of a peer's earlier message are returned before those of a later.
C21_EventsFifo ==
    /\ (Polled /\ bsLast.pre.events /= <<>>)
         => /\ bsLast.ret = Head(bsLast.pre.events)
            /\ bs = [bsLast.pre EXCEPT !.events = Tail(@)]
    /\ (bsLast.op \notin {"none", "poll"})
         => IsPrefix(bsLast.pre.events, bs.events)

\* Two events of one peer are queued, from two messages; poll returns the
\* one of the earlier message while a channel or a ledger has work waiting.
C21_Witness ==
    /\ Polled
    /\ Len(bsLast.pre.events) = 2
    /\ bsLast.ret.type = "GenerateEvent"
    /\ bs.events[1].type = "GenerateEvent"
    /\ bs.events[1].out.peer = bsLast.ret.out.peer
    /\ bs.events[1].out /= bsLast.ret.out
    /\ \/ bs.dont_have_rx /= <<>>
       \/ bs.ready_blocks /= <<>>
       \/ \E p \in DOMAIN bs.connected_peers : HasOutbound(bs, p)

\* C22 as stated: a poll that drains a channel neither drains the other
\* channel nor dispatches a ledger message.
C22_ExactlyOneStep ==
    (Polled /\ bsLast.pre.events = <<>>)
        => /\ bsLast.pre.dont_have_rx /= <<>>
                => /\ bs.ready_blocks = bsLast.pre.ready_blocks
                   /\ bsLast.ret.type /= "NotifyHandler"
           /\ bsLast.pre.ready_blocks /= <<>>
                => bsLast.ret.type /= "NotifyHandler"

\* C22 (amended): a poll either returns the head event and does nothing
\* else, or, the events queue being empty, drains the dont_have channel and
\* the ready_blocks channel completely and then takes the message of at
\* most one ledger: it returns that message, or Pending when no ledger had
\* one, and touches nothing but the channels and the ledgers.
C22_PollSteps ==
    Polled
        => IF bsLast.pre.events /= <<>>
           THEN /\ bsLast.ret = Head(bsLast.pre.events)
                /\ bs = [bsLast.pre EXCEPT !.events = Tail(@)]
           ELSE /\ bs.dont_have_rx = <<>>
                /\ bs.ready_blocks = <<>>
                /\ bs.events = <<>>
                /\ bs.wanted_blocks = bsLast.pre.wanted_blocks
                /\ bs.target_peers = bsLast.pre.target_peers
                /\ DOMAIN bs.connected_peers = DOMAIN bsLast.pre.connected_peers
                /\ Cardinality(DispatchedTo) <= 1
                /\ bsLast.ret.type \in {"Pending", "NotifyHandler"}
                /\ bsLast.ret.type = "Pending" <=> DispatchedTo = {}
                /\ bsLast.ret.type = "NotifyHandler"
                     => DispatchedTo = {bsLast.ret.peer}

\* One poll drains an item of each channel, both with an effect on the
\* ledger, and dispatches the message of that ledger.
C22_Witness ==
    /\ Polled
    /\ bsLast.pre.events = <<>>
    /\ bsLast.pre.dont_have_rx /= <<>>
    /\ bsLast.pre.ready_blocks /= <<>>
    /\ bs.dont_have_rx = <<>>
    /\ bs.ready_blocks = <<>>
    /\ bsLast.ret.type = "NotifyHandler"
    /\ bsLast.ret.message.blocks = <<bsLast.pre.ready_blocks[1][2]>>
    /\ bs.connected_peers[bsLast.ret.peer].received_want_list
         /= bsLast.pre.connected_peers[bsLast.ret.peer].received_want_list

\* C23: with no event queued, both channels empty and no connected ledger
\* holding queued blocks, pending cancels or unsent wants, poll returns
\* Pending and changes nothing; and poll does not return Pending when an
\* event is queued or a connected ledger holds outbound data.
C23_PendingIffNoWork ==
    Polled
        => /\ (/\ bsLast.pre.events = <<>>
               /\ bsLast.pre.dont_have_rx = <<>>
               /\ bsLast.pre.ready_blocks = <<>>
               /\ \A p \in DOMAIN bsLast.pre.connected_peers :
                     ~HasOutbound(bsLast.pre, p))
                => (bsLast.ret = Pending /\ bs = bsLast.pre)
           /\ (\/ bsLast.pre.events /= <<>>
               \/ \E p \in DOMAIN bsLast.pre.connected_peers :
                     HasOutbound(bsLast.pre, p))
                => bsLast.ret.type /= "Pending"

\* Two peers are connected, one ledger holds outbound data, and poll returns
\* its message; before that a poll with no work returned Pending.
C23_Witness ==
    /\ Polled
    /\ bsLast.pre.events = <<>>
    /\ Cardinality(DOMAIN bsLast.pre.connected_peers) = 2
    /\ Cardinality({p \in DOMAIN bsLast.pre.connected_peers :
                       HasOutbound(bsLast.pre, p)}) = 1
    /\ bsLast.ret.type = "NotifyHandler"

\* A poll with nothing to do.
PollWithNoWork ==
    /\ Polled
    /\ bsLast.ret = Pending
    /\ bs = bsLast.pre
    /\ bs.connected_peers /= EmptyMap

\* C24: sent_blocks of a peer is the number of blocks in the ledger
\* messages poll has returned for that peer, and no call other than poll
\* changes the counter of a peer that has one.
C24_SentBlocksCounted ==
    /\ \A p \in Peers :
          IF p \in DOMAIN bs.stats
          THEN bs.stats[p].sent_blocks = PDispatched[p]
          ELSE PDispatched[p] = 0
    /\ (bsLast.op \notin {"none", "poll"})
         => \A p \in DOMAIN bsLast.pre.stats :
               bs.stats[p].sent_blocks = bsLast.pre.stats[p].sent_blocks

\* poll returns a ledger message with two blocks; and a ledger message
\* without blocks has been returned.
C24_Witness ==
    /\ Polled
    /\ bsLast.pre.events = <<>>
    /\ bsLast.ret.type = "NotifyHandler"
    /\ Len(bsLast.ret.message.blocks) = 2
    /\ bs.stats[bsLast.ret.peer].sent_blocks = 2

\* C25: send_block queues the block on the ledger of a connected peer and
\* changes nothing for a peer that is not connected; a poll that drains
\* ready_blocks does the same with each pair: no ledger is created, the
\* blocks of connected peers are queued (or sent by this poll), and when no
\* pair is for a connected peer nothing but the channel changes unless a
\* ledger had a message of its own.
C25_SendBlockFrame ==
    /\ bsLast.op = "send_block"
         => IF bsLast.peer \in DOMAIN bsLast.pre.connected_peers
            THEN bs = [bsLast.pre EXCEPT
                          !.connected_peers[bsLast.peer].queued_blocks =
                              QueueWith(@, <<<<bsLast.peer, Block(bsLast.cid)>>>>,
                                        bsLast.peer)]
            ELSE bs = bsLast.pre
    /\ (Polled /\ bsLast.pre.events = <<>>)
         => /\ DOMAIN bs.connected_peers = DOMAIN bsLast.pre.connected_peers
            /\ DOMAIN bs.stats = DOMAIN bsLast.pre.stats
            /\ bs.events = <<>>
            /\ \A p \in DOMAIN bs.connected_peers :
                  LET queue == QueueWith(bsLast.pre.connected_peers[p].queued_blocks,
                                         bsLast.pre.ready_blocks, p)
                  IN IF bsLast.ret.type = "NotifyHandler" /\ bsLast.ret.peer = p
                     THEN /\ bsLast.ret.message.blocks = queue
                          /\ bs.connected_peers[p].queued_blocks = <<>>
                     ELSE bs.connected_peers[p].queued_blocks = queue
            /\ (/\ bsLast.pre.dont_have_rx = <<>>
                /\ \A i \in DOMAIN bsLast.pre.ready_blocks :
                      bsLast.pre.ready_blocks[i][1] \notin DOMAIN bs.connected_peers
                /\ \A p \in DOMAIN bsLast.pre.connected_peers :
                      ~HasOutbound(bsLast.pre, p))
                 => /\ bs = [bsLast.pre EXCEPT !.ready_blocks = <<>>]
                    /\ bsLast.ret = Pending

\* poll drains a block for a peer that is not connected while another peer
\* is connected.
C25_Witness ==
    /\ Polled
    /\ bsLast.pre.events = <<>>
    /\ bsLast.pre.ready_blocks /= <<>>
    /\ bsLast.pre.ready_blocks[1][1] \notin DOMAIN bs.connected_peers
    /\ bs.connected_peers /= EmptyMap
    /\ bs.ready_blocks = <<>>

\* send_block for a peer that is not connected.
SendBlockToStranger ==
    /\ bsLast.op = "send_block"
    /\ bsLast.peer \notin DOMAIN bsLast.pre.connected_peers
    /\ bsLast.pre.connected_peers /= EmptyMap

\* C32: in every ledger no CID is both in sent_want_list and in
\* sent_cancels, and queued_blocks holds no two blocks with the same CID.
C32_LedgerDisjoint ==
    \A p \in DOMAIN bs.connected_peers :
        LET ledger == bs.connected_peers[p]
        IN /\ DOMAIN ledger.sent_want_list \cap ledger.sent_cancels = {}
           /\ \A i, j \in DOMAIN ledger.queued_blocks :
                 ledger.queued_blocks[i].cid = ledger.queued_blocks[j].cid => i = j

\* A CID that was wanted, cancelled by the arrival of its block and wanted
\* again: the cancel that was waiting in the ledger is gone.
C32_Witness ==
    /\ bsLast.op = "want_block"
    /\ \E p \in DOMAIN bs.connected_peers :
          /\ bsLast.cid \in bsLast.pre.connected_peers[p].sent_cancels
          /\ bsLast.cid \in DOMAIN bs.connected_peers[p].sent_want_list

\* A block is given to a ledger that already holds it.
QueuedTwice ==
    /\ bsLast.op = "send_block"
    /\ bsLast.peer \in DOMAIN bs.connected_peers
    /\ bs = bsLast.pre
    /\ bs.connected_peers[bsLast.peer].queued_blocks /= <<>>

(***************************************************************************)
(* Wants and their cancels: the user wants and cancels blocks, peers       *)
(* connect and send blocks, and the swarm keeps polling.  told is, per     *)
(* peer, the CIDs the peer has been handed a want for and no cancel since. *)
(***************************************************************************)
CTold ==
    IF "told" \in DOMAIN bsLast THEN bsLast.told ELSE [p \in Peers |-> {}]

CCall(op, peer, cid, priority, wrapper, b) ==
    /\ bsLast.op = "none"
    /\ HCalls < MaxCCalls
    /\ bs' = b
    /\ bsLast' = [op |-> op, peer |-> peer, cid |-> cid, priority |-> priority,
                  peers |-> {}, wrapper |-> wrapper, ret |-> NoReturn, pre |-> bs,
                  after |-> bsLast.after, calls |-> HCalls + 1, told |-> CTold]

CWantBlock ==
    \E cid \in HCids, priority \in Prios :
        /\ CCall("want_block", 0, cid, priority, WrapperTx,
                 want_block(bs, cid, priority))
        /\ UNCHANGED conns

CCancelBlock ==
    \E cid \in HCids :
        /\ CCall("cancel_block", 0, cid, 0, WrapperTx, cancel_block(bs, cid))
        /\ UNCHANGED conns

CConnectionEstablished ==
    \E peer_id \in Peers :
        /\ conns[peer_id] < MaxConns
        /\ CCall("ConnectionEstablished", peer_id, 0, 0, WrapperTx,
                 ConnectionEstablished(bs, peer_id))
        /\ conns' = [conns EXCEPT ![peer_id] = @ + 1]

\* A peer sends one block.
CRx ==
    /\ bsLast.op = "none"
    /\ HCalls < MaxCCalls
    /\ \E source \in {p \in Peers : conns[p] > 0}, cid \in HCids :
        LET message == [Message_default EXCEPT !.blocks = <<Block(cid)>>]
        IN /\ CCall("handler_rx", source, cid, 0, WrapperRx(message),
                    on_connection_handler_event(bs, source, WrapperRx(message),
                                                <<>>, <<>>))
           /\ UNCHANGED conns

\* poll; a NotifyHandler it returns is handed to the peer's handler.
CPoll ==
    /\ bsLast.op = "none"
    /\ \E order \in Orders(DOMAIN bs.connected_peers) :
        LET r == poll(bs, order)
        IN /\ bs' = r.b
           /\ bsLast' = [op |-> "poll", peer |-> 0, cid |-> 0, priority |-> 0,
                         peers |-> {}, wrapper |-> WrapperTx, ret |-> r.ret,
                         pre |-> bs, after |-> bsLast.after, calls |-> HCalls,
                         told |->
                             IF r.ret.type = "NotifyHandler"
                             THEN [CTold EXCEPT ![r.ret.peer] =
                                      (@ \cup DOMAIN r.ret.message.want)
                                          \ r.ret.message.cancel]
                             ELSE CTold]
    /\ UNCHANGED conns

CReturn ==
    /\ bsLast.op /= "none"
    /\ bsLast' = BsIdle(NoCallBefore) @@ [calls |-> bsLast.calls, told |-> CTold]
    /\ UNCHANGED <<bs, conns>>

\* C34 as stated: a peer that has been handed a want for c, c being wanted
\* no longer, is handed a cancel for c as the polling goes on, unless c is
\* wanted again.
C34_CancelReachesPeers ==
    \A p \in Peers, c \in HCids :
        (c \in CTold[p] /\ c \notin DOMAIN bs.wanted_blocks)
            ~> (c \notin CTold[p] \/ c \in DOMAIN bs.wanted_blocks)

(***************************************************************************)
(* Properties of handling one inbound message (checked under SpecHandler). *)
(***************************************************************************)
\* The last call handled a message from a peer that had a ledger.
HandledRx ==
    /\ bsLast.op = "handler_rx"
    /\ bsLast.peer \in DOMAIN bsLast.pre.connected_peers

\* The events the last call appended to the queue.
Appended == SubSeq(bs.events, Len(bsLast.pre.events) + 1, Len(bs.events))

\* The want entries of the message, in the order they were iterated, that
\* are not in the behaviour's own wantlist.
ForeignWants ==
    LET Foreign(cid) == cid \notin DOMAIN bsLast.pre.wanted_blocks
    IN SelectSeq(bsLast.want_order, Foreign)

\* Cancels first, then wants, then blocks, each in the order of the message.
EventsInOrder ==
    LET message == bsLast.wrapper.message
        source == bsLast.peer
        cancels == [i \in 1 .. Len(bsLast.cancel_order) |->
                       GenerateEvent(ReceivedCancel(source, bsLast.cancel_order[i]))]
        wants == [i \in 1 .. Len(ForeignWants) |->
                     GenerateEvent(ReceivedWant(source, ForeignWants[i],
                                                message.want[ForeignWants[i]]))]
        blocks == [i \in 1 .. Len(message.blocks) |->
                      GenerateEvent(ReceivedBlock(source, message.blocks[i]))]
    IN /\ Len(bs.events) >= Len(bsLast.pre.events)
       /\ SubSeq(bs.events, 1, Len(bsLast.pre.events)) = bsLast.pre.events
       /\ Appended = cancels \o wants \o blocks

\* The claim as stated: every CID both cancelled and wanted in the message
\* ends up in the sender's received_want_list.
C16_OrderAsClaimed ==
    HandledRx
        => /\ EventsInOrder
           /\ \A cid \in bsLast.wrapper.message.cancel
                            \cap DOMAIN bsLast.wrapper.message.want :
                cid \in DOMAIN bs.connected_peers[bsLast.peer].received_want_list

\* C16 (amended): for one Rx message from a connected peer the events are
\* appended in the order cancels, wants, blocks, and a CID both cancelled
\* and wanted in the message that is not in the behaviour's own wantlist
\* ends up in the sender's received_want_list with the priority of the
\* message.
C16_HandlerOrder ==
    HandledRx
        => /\ EventsInOrder
           /\ \A cid \in bsLast.wrapper.message.cancel
                            \cap DOMAIN bsLast.wrapper.message.want :
                cid \notin DOMAIN bsLast.pre.wanted_blocks
                    => LET received ==
                               bs.connected_peers[bsLast.peer].received_want_list
                       IN /\ cid \in DOMAIN received
                          /\ received[cid] = bsLast.wrapper.message.want[cid]

\* A message cancels and wants the same CID, which the peer had asked for
\* before, and carries a block; events were queued already.
C16_Witness ==
    /\ HandledRx
    /\ bsLast.pre.events /= <<>>
    /\ bsLast.wrapper.message.blocks /= <<>>
    /\ \E cid \in bsLast.wrapper.message.cancel \cap DOMAIN bsLast.wrapper.message.want :
         /\ cid \notin DOMAIN bsLast.pre.wanted_blocks
         /\ cid \in DOMAIN bsLast.pre.connected_peers[bsLast.peer].received_want_list
         /\ cid \in DOMAIN bs.connected_peers[bsLast.peer].received_want_list
    /\ Len(Appended) = 3

\* The number of times x occurs in the sequence.
Occurrences(seq, x) == Cardinality({i \in DOMAIN seq : seq[i] = x})

\* C17: for every block of an Rx message from a connected peer the block's
\* CID is taken out of wanted_blocks and of every connected ledger's
\* sent_want_list, as cancel_block does, and one ReceivedBlock(peer, block)
\* event is queued per block carried; after the handler no CID of a
\* received block is wanted.
C17_BlockCancelsWant ==
    HandledRx
        => LET blocks == bsLast.wrapper.message.blocks
               cids == {blocks[i].cid : i \in DOMAIN blocks}
           IN /\ \A cid \in cids :
                   /\ cid \notin DOMAIN bs.wanted_blocks
                   /\ \A p \in DOMAIN bs.connected_peers :
                        /\ cid \notin DOMAIN bs.connected_peers[p].sent_want_list
                        /\ cid \in DOMAIN bsLast.pre.connected_peers[p].sent_want_list
                             => cid \in bs.connected_peers[p].sent_cancels
              /\ \A cid \in DOMAIN bsLast.pre.wanted_blocks \ cids :
                   /\ cid \in DOMAIN bs.wanted_blocks
                   /\ bs.wanted_blocks[cid] = bsLast.pre.wanted_blocks[cid]
              /\ \A i \in DOMAIN blocks :
                   Occurrences(Appended, GenerateEvent(ReceivedBlock(bsLast.peer, blocks[i])))
                       = Occurrences(blocks, blocks[i])

\* A wanted block arrives while two peers have the want in their ledgers.
C17_Witness ==
    /\ HandledRx
    /\ \E i \in DOMAIN bsLast.wrapper.message.blocks :
         LET cid == bsLast.wrapper.message.blocks[i].cid
         IN /\ cid \in DOMAIN bsLast.pre.wanted_blocks
            /\ Cardinality({p \in DOMAIN bsLast.pre.connected_peers :
                   cid \in DOMAIN bsLast.pre.connected_peers[p].sent_want_list}) >= 2
            /\ cid \notin DOMAIN bs.wanted_blocks
            /\ \A p \in DOMAIN bs.connected_peers :
                 cid \in bs.connected_peers[p].sent_cancels

\* C18: a want entry whose CID is in the behaviour's own wanted_blocks when
\* the message is handled is not inserted into the sender's
\* received_want_list and not reported; every other want entry is inserted
\* with its priority and reported by exactly one ReceivedWant event.
C18_OwnWantsFiltered ==
    HandledRx
        => LET message == bsLast.wrapper.message
               source == bsLast.peer
               before == bsLast.pre.connected_peers[source].received_want_list
               received == bs.connected_peers[source].received_want_list
               Reports(cid) == {i \in DOMAIN Appended :
                                   /\ Appended[i].out.kind = "ReceivedWant"
                                   /\ Appended[i].out.cid = cid}
           IN \A cid \in DOMAIN message.want :
                IF cid \in DOMAIN bsLast.pre.wanted_blocks
                THEN /\ Reports(cid) = {}
                     /\ cid \in DOMAIN received
                          => /\ cid \in DOMAIN before
                             /\ cid \notin message.cancel
                             /\ received[cid] = before[cid]
                ELSE /\ cid \in DOMAIN received
                     /\ received[cid] = message.want[cid]
                     /\ Cardinality(Reports(cid)) = 1
                     /\ \A i \in Reports(cid) :
                          Appended[i] = GenerateEvent(ReceivedWant(source, cid, message.want[cid]))

\* One message wants a CID of our own wantlist and another CID that the
\* peer had asked for with a different priority.
C18_Witness ==
    /\ HandledRx
    /\ \E c1, c2 \in DOMAIN bsLast.wrapper.message.want :
         /\ c1 \in DOMAIN bsLast.pre.wanted_blocks
         /\ c1 \notin DOMAIN bs.connected_peers[bsLast.peer].received_want_list
         /\ c2 \notin DOMAIN bsLast.pre.wanted_blocks
         /\ c2 \in DOMAIN bsLast.pre.connected_peers[bsLast.peer].received_want_list
         /\ bsLast.pre.connected_peers[bsLast.peer].received_want_list[c2]
              /= bsLast.wrapper.message.want[c2]
    /\ Len(Appended) = 1

(***************************************************************************)
(* The two-peer exchange: behaviour bs (E1, known to E2 as peer E1Id) and  *)
(* behaviour bs2 (E2, known to E1 as peer E2Id) with a swarm each.  E1's   *)
(* user wants blocks; E2's user holds every block and answers each         *)
(* ReceivedWant with send_block.  A NotifyHandler returned by poll puts    *)
(* its message on the connection; the remote handler hands it to its       *)
(* behaviour as Rx.                                                        *)
(***************************************************************************)
E1Id == 1

E2Id == 2

XInit ==
    /\ bs2 = Bitswap_default
    /\ net = [to1 |-> <<>>, to2 |-> <<>>]
    /\ xs = [wantCalled |-> {}, up1 |-> FALSE, up2 |-> FALSE, toAnswer |-> <<>>,
             emitted |-> [c \in BsCids |-> 0]]

\* E1's user asks for a block (once per CID).
XWantBlock ==
    \E cid \in BsCids \ xs.wantCalled, priority \in Prios :
        /\ bs' = want_block(bs, cid, priority)
        /\ xs' = [xs EXCEPT !.wantCalled = @ \cup {cid}]
        /\ UNCHANGED <<bs2, net>>

\* E1's user asks for a dial of E2.
XConnect1 ==
    /\ E2Id \notin bs.target_peers
    /\ ~xs.up1
    /\ bs' = connect(bs, E2Id)
    /\ UNCHANGED <<bs2, net, xs>>

\* E2's user asks for a dial of E1.
XConnect2 ==
    /\ E1Id \notin bs2.target_peers
    /\ ~xs.up2
    /\ bs2' = connect(bs2, E1Id)
    /\ UNCHANGED <<bs, net, xs>>

\* The connection comes up at E1.
XEstablished1 ==
    /\ ~xs.up1
    /\ bs' = ConnectionEstablished(bs, E2Id)
    /\ xs' = [xs EXCEPT !.up1 = TRUE]
    /\ UNCHANGED <<bs2, net>>

\* The connection comes up at E2.
XEstablished2 ==
    /\ ~xs.up2
    /\ bs2' = ConnectionEstablished(bs2, E1Id)
    /\ xs' = [xs EXCEPT !.up2 = TRUE]
    /\ UNCHANGED <<bs, net>>

\* E1's swarm polls E1 and acts on what poll returns.
XPoll1 ==
    \E order \in Orders(DOMAIN bs.connected_peers) :
        LET r == poll(bs, order)
        IN /\ r.ret.type /= "Pending"
           /\ bs' = r.b
           /\ net' = IF r.ret.type = "NotifyHandler" /\ r.ret.peer = E2Id
                     THEN [net EXCEPT !.to2 = Append(@, r.ret.message)]
                     ELSE net
           /\ xs' = IF r.ret.type = "GenerateEvent" /\ r.ret.out.kind = "ReceivedBlock"
                    THEN [xs EXCEPT !.emitted[r.ret.out.cid] = @ + 1]
                    ELSE xs
           /\ UNCHANGED bs2

\* E2's swarm polls E2 and acts on what poll returns.
XPoll2 ==
    \E order \in Orders(DOMAIN bs2.connected_peers) :
        LET r == poll(bs2, order)
        IN /\ r.ret.type /= "Pending"
           /\ bs2' = r.b
           /\ net' = IF r.ret.type = "NotifyHandler" /\ r.ret.peer = E1Id
                     THEN [net EXCEPT !.to1 = Append(@, r.ret.message)]
                     ELSE net
           /\ xs' = IF r.ret.type = "GenerateEvent" /\ r.ret.out.kind = "ReceivedWant"
                    THEN [xs EXCEPT !.toAnswer = Append(@, r.ret.out.cid)]
                    ELSE xs
           /\ UNCHANGED bs

\* E1's handler receives the next message from E2.
XDeliver1 ==
    /\ xs.up1
    /\ net.to1 /= <<>>
    /\ LET message == Head(net.to1)
       IN \E cancel_order \in Orders(message.cancel),
             want_order \in Orders(DOMAIN message.want) :
              bs' = on_connection_handler_event(bs, E2Id, WrapperRx(message),
                                                cancel_order, want_order)
    /\ net' = [net EXCEPT !.to1 = Tail(@)]
    /\ UNCHANGED <<bs2, xs>>

\* E2's handler receives the next message from E1.
XDeliver2 ==
    /\ xs.up2
    /\ net.to2 /= <<>>
    /\ LET message == Head(net.to2)
       IN \E cancel_order \in Orders(message.cancel),
             want_order \in Orders(DOMAIN message.want) :
              bs2' = on_connection_handler_event(bs2, E1Id, WrapperRx(message),
                                                 cancel_order, want_order)
    /\ net' = [net EXCEPT !.to2 = Tail(@)]
    /\ UNCHANGED <<bs, xs>>

\* E2's user answers a ReceivedWant with the block.
XAnswer ==
    /\ xs.toAnswer /= <<>>
    /\ bs2' = send_block(bs2, E1Id, Block(Head(xs.toAnswer)))
    /\ xs' = [xs EXCEPT !.toAnswer = Tail(@)]
    /\ UNCHANGED <<bs, net>>

NextExchange ==
    /\ \/ XWantBlock
       \/ XConnect1
       \/ XConnect2
       \/ XEstablished1
       \/ XEstablished2
       \/ XPoll1
       \/ XPoll2
       \/ XDeliver1
       \/ XDeliver2
       \/ XAnswer
    /\ UNCHANGED <<pinVars, conns, bsLast, txVars, getVars>>

\* Both swarms keep polling, the connection comes up, and E2's user reacts.
FairExchange ==
    /\ WF_vars(XEstablished1 /\ UNCHANGED <<pinVars, conns, bsLast, txVars, getVars>>)
    /\ WF_vars(XEstablished2 /\ UNCHANGED <<pinVars, conns, bsLast, txVars, getVars>>)
    /\ WF_vars(XPoll1 /\ UNCHANGED <<pinVars, conns, bsLast, txVars, getVars>>)
    /\ WF_vars(XPoll2 /\ UNCHANGED <<pinVars, conns, bsLast, txVars, getVars>>)
    /\ WF_vars(XDeliver1 /\ UNCHANGED <<pinVars, conns, bsLast, txVars, getVars>>)
    /\ WF_vars(XDeliver2 /\ UNCHANGED <<pinVars, conns, bsLast, txVars, getVars>>)
    /\ WF_vars(XAnswer /\ UNCHANGED <<pinVars, conns, bsLast, txVars, getVars>>)

\* C3: two-peer block exchange.  Once E1 has called want_block(C), E1
\* eventually emits ReceivedBlock(E2, B); it never emits it twice; and once
\* it is emitted C is not in E1's wanted_blocks.
C3_TwoPeerExchange ==
    \A cid \in BsCids :
        /\ (cid \in xs.wantCalled) ~> (xs.emitted[cid] = 1)
        /\ [](xs.emitted[cid] <= 1)
        /\ [](xs.emitted[cid] = 1 => cid \notin DOMAIN bs.wanted_blocks)

C3_Witness ==
    \E cid \in BsCids :
        /\ cid \in xs.wantCalled
        /\ xs.emitted[cid] = 1
        /\ cid \notin DOMAIN bs.wanted_blocks
        /\ bs2.stats[E1Id].sent_blocks = 1

(***************************************************************************)
(* UnixFS get: a walker is fed the blocks of a DAG one at a time, the      *)
(* bytes of its file segments go to a sink, and a stream of statuses tells *)
(* the caller how far it is.                                               *)
(***************************************************************************)
\* Option<usize>
NoneSize == <<>>

SomeSize(size) == <<size>>

\* UnixfsStatus
ProgressStatus(written, total_size) ==
    [type |-> "ProgressStatus", written |-> written, total_size |-> total_size]

\* Mutant: the failure does not tell the size.
FailedStatusDropsSize(written, total_size) ==
    [type |-> "FailedStatus", written |-> written, total_size |-> NoneSize]

FailedStatus(written, total_size) ==
    [type |-> "FailedStatus", written |-> written, total_size |-> total_size]

CompletedStatus(written, total_size) ==
    [type |-> "CompletedStatus", written |-> written, total_size |-> total_size]

\* What one feed of the walker yields: ContinuedWalk.
Other(kind) == [kind |-> kind, first |-> FALSE, last |-> FALSE, len |-> 0, size |-> 0]

FileSegment(first, last, len, size) ==
    [kind |-> "File", first |-> first, last |-> last, len |-> len, size |-> size]

RECURSIVE SumSeq(_)
SumSeq(seq) == IF seq = <<>> THEN 0 ELSE Head(seq) + SumSeq(Tail(seq))

\* A file is the byte counts of its segments, one segment per block.
Files == UNION {[1 .. k -> 0 .. MaxSegLen] : k \in 1 .. MaxSegments}

\* The feeds of the walker over one file: every segment carries the size of
\* the file, the first and the last say so.
FileWalk(file) ==
    [i \in 1 .. Len(file) |->
        FileSegment(i = 1, i = Len(file), file[i], SumSeq(file))]

RECURSIVE FilesWalk(_)
FilesWalk(files) ==
    IF files = <<>> THEN <<>>
    ELSE FileWalk(Head(files)) \o FilesWalk(Tail(files))

\* Files of one block.
SmallFiles == {file \in Files : Len(file) = 1}

\* The feeds of the walker over a DAG: one file, a directory of files of one
\* block each, or a sharded directory with a subdirectory, a file of any
\* number of blocks and a symlink.
Walks ==
    {FileWalk(file) : file \in Files}
    \cup {<<Other("RootDirectory")>> \o FilesWalk(files) :
            files \in UNION {[1 .. k -> SmallFiles] : k \in 1 .. MaxFiles}}
    \cup {<<Other("RootDirectory"), Other("Bucket"), Other("Directory")>>
          \o FileWalk(file) \o <<Other("Symlink")>> : file \in Files}

\* Walker::should_continue
should_continue(walker) == walker /= <<>>

GetIdle ==
    [pc |-> "idle", walker |-> <<>>, segment |-> Other("None"), n |-> 0,
     total_size |-> NoneSize, written |-> 0,
     items |-> <<>>, synced |-> <<>>,
     fetched |-> 0, sink |-> 0, flushed |-> 0, failed |-> "none"]

\* yield: the consumer gets the status; synced remembers how many bytes
\* the sink had flushed then.
Yield(u, status) ==
    [u EXCEPT !.items = Append(@, status), !.synced = Append(@, u.flushed)]

\* Mutant: the stream goes on after a failure.
FailureGoesOn(u, kind) ==
    [Yield(u, FailedStatus(u.written, u.total_size))
        EXCEPT !.pc = "loop", !.failed = kind]

\* yield FailedStatus {..}; return;
Fail(u, kind) ==
    [Yield(u, FailedStatus(u.written, u.total_size))
        EXCEPT !.pc = "end", !.failed = kind]

\* Mutant: the segment goes to the sink a byte at a time.
ChunkOfOne(total, n) == 1

\* let next = &slice[n..]: the bytes of the segment from n on.
Chunk(total, n) == total - n

\* Mutant: written is set to the bytes of the segment.
WrittenIsSegment(written, n) == n

\* written += n
Written(written, n) == written + n

\* get(): the root is resolved, the walker created, the stream handed out.
GetCall ==
    /\ ux.pc = "idle"
    /\ \E walk \in Walks :
        ux' = [ux EXCEPT !.pc = "loop", !.walker = walk]

\* The top of the loop with work left: the next block is fetched.
GetFetch ==
    /\ ux.pc = "loop"
    /\ should_continue(ux.walker)
    /\ \E fetch_ok \in BOOLEAN :
        ux' = IF fetch_ok
              THEN [ux EXCEPT !.pc = "next", !.fetched = @ + 1]
              ELSE Fail([ux EXCEPT !.fetched = @ + 1], "fetch")

\* walker.next(block_data): the block decodes to the next node of the walk
\* or fails to decode.
GetNext ==
    /\ ux.pc = "next"
    /\ \E decode_ok \in BOOLEAN :
        ux' = IF ~decode_ok THEN Fail(ux, "decode")
              ELSE LET node == Head(ux.walker)
                       u1 == [ux EXCEPT !.walker = Tail(@)]
                   IN IF node.kind /= "File" THEN [u1 EXCEPT !.pc = "loop"]
                      ELSE LET u2 == [u1 EXCEPT !.segment = node, !.n = 0,
                                                !.pc = "write"]
                           IN IF node.first
                              THEN LET u3 == [u2 EXCEPT !.total_size =
                                                           SomeSize(node.size)]
                                   IN Yield(u3, ProgressStatus(u3.written,
                                                               u3.total_size))
                              ELSE u2

\* while n < total: file.write_all(next); after the loop the status of the
\* last segment.
GetWrite ==
    /\ ux.pc = "write"
    /\ IF ux.n < ux.segment.len
       THEN LET next == Chunk(ux.segment.len, ux.n)
                u1 == [ux EXCEPT !.n = @ + next]
            IN \/ ux' = [u1 EXCEPT !.sink = @ + next, !.pc = "sync"]
               \/ \E part \in 0 .. next - 1 :
                     ux' = Fail([u1 EXCEPT !.sink = @ + part], "write")
       ELSE ux' = IF ux.segment.last
                  THEN [Yield(ux, ProgressStatus(ux.written, ux.total_size))
                           EXCEPT !.pc = "loop"]
                  ELSE [ux EXCEPT !.pc = "loop"]

\* file.sync_all(); written += n; yield ProgressStatus.
GetSync ==
    /\ ux.pc = "sync"
    /\ \E sync_ok \in BOOLEAN :
        ux' = IF ~sync_ok THEN Fail(ux, "sync")
              ELSE LET u1 == [ux EXCEPT !.flushed = ux.sink,
                                        !.written = Written(@, ux.n),
                                        !.pc = "write"]
                   IN Yield(u1, ProgressStatus(u1.written, u1.total_size))

\* The walker has nothing left: yield CompletedStatus.
GetComplete ==
    /\ ux.pc = "loop"
    /\ ~should_continue(ux.walker)
    /\ ux' = [Yield(ux, CompletedStatus(ux.written, ux.total_size))
                 EXCEPT !.pc = "end"]

(***************************************************************************)
(* Properties of the status stream of a get (checked under SpecGet).       *)
(***************************************************************************)
Terminal(status) == status.type \in {"CompletedStatus", "FailedStatus"}

\* C27: written never decreases from one status to the next, and in every
\* status it is the number of bytes the sink had taken and flushed when the
\* status was yielded.
C27_WrittenIsFlushed ==
    \A i \in DOMAIN ux.items :
        /\ ux.items[i].written = ux.synced[i]
        /\ i > 1 => ux.items[i - 1].written <= ux.items[i].written

\* written has advanced by the two bytes of a segment, and the stream ended
\* with the sink holding bytes that were written and never flushed.
C27_Witness ==
    /\ \E i, j \in DOMAIN ux.items :
          /\ i < j
          /\ ux.items[i].written + 2 = ux.items[j].written
    /\ ux.sink > ux.flushed
    /\ ux.pc = "end"

\* C28 as stated: once a status carries total_size = Some(n), every later
\* status of the stream carries Some(n).
C28_TotalSizeImmutable ==
    \A i, j \in DOMAIN ux.items :
        (i < j /\ ux.items[i].total_size /= NoneSize)
            => ux.items[j].total_size = ux.items[i].total_size

\* C29: the statuses before the last are ProgressStatus, and the stream has
\* ended exactly when its last status is CompletedStatus or FailedStatus:
\* a finished stream has one terminal status, in the last place.
C29_OneTerminalLast ==
    /\ \A i \in 1 .. Len(ux.items) - 1 : ux.items[i].type = "ProgressStatus"
    /\ ux.pc = "end"
         <=> (ux.items /= <<>> /\ Terminal(ux.items[Len(ux.items)]))
    /\ ux.pc = "end" => ux.walker = <<>> \/ ux.failed /= "none"

\* A stream that failed after two ProgressStatus.
C29_Witness ==
    /\ ux.pc = "end"
    /\ Len(ux.items) >= 3
    /\ ux.items[Len(ux.items)].type = "FailedStatus"
    /\ ux.walker /= <<>>

\* A stream that completed over a directory.
GetCompleted ==
    /\ ux.pc = "end"
    /\ ux.items[Len(ux.items)].type = "CompletedStatus"
    /\ ux.fetched >= 3

\* C30: once a fetch, a write, a flush or a decoding has failed, the stream
\* has ended with a FailedStatus that carries written and total_size as
\* they stand, it holds no CompletedStatus and no other FailedStatus, and
\* nothing happens any more: no fetch, no write.
C30_FailureEndsStream ==
    /\ [](ux.failed /= "none"
            => /\ ux.pc = "end"
               /\ ux.items /= <<>>
               /\ ux.items[Len(ux.items)] = [type |-> "FailedStatus",
                                             written |-> ux.written,
                                             total_size |-> ux.total_size]
               /\ \A i \in 1 .. Len(ux.items) - 1 : ~Terminal(ux.items[i]))
    /\ [][ux.failed /= "none" => ux' = ux]_vars

\* A write fails part of the way after the size was told and bytes were
\* flushed, with more of the DAG to go.
C30_Witness ==
    /\ ux.failed = "write"
    /\ ux.total_size /= NoneSize
    /\ ux.written > 0
    /\ ux.sink > ux.flushed
    /\ ux.walker /= <<>>

(***************************************************************************)
(* A get of one file with every block at hand, every block decoding and a  *)
(* sink that takes every write and flush.  dag remembers the walk.         *)
(***************************************************************************)
\* The "foobar\n" fixture: a root block with four links, then the leaves
\* "fo", "ob", "ar" and "\n".
FoobarWalk ==
    <<FileSegment(TRUE, FALSE, 0, 7), FileSegment(FALSE, FALSE, 2, 7),
      FileSegment(FALSE, FALSE, 2, 7), FileSegment(FALSE, FALSE, 2, 7),
      FileSegment(FALSE, TRUE, 1, 7)>>

GetCallFile ==
    /\ ux.pc = "idle"
    /\ \E walk \in {FileWalk(file) : file \in Files} \cup {FoobarWalk} :
        ux' = [ux EXCEPT !.pc = "loop", !.walker = walk] @@ [dag |-> walk]

GetFetchOk ==
    /\ GetFetch
    /\ ux'.failed = "none"

GetNextOk ==
    /\ GetNext
    /\ ux'.failed = "none"

GetWriteOk ==
    /\ GetWrite
    /\ ux'.failed = "none"

GetSyncOk ==
    /\ GetSync
    /\ ux'.failed = "none"

NextGetFile ==
    /\ \/ GetCallFile
       \/ GetFetchOk
       \/ GetNextOk
       \/ GetWriteOk
       \/ GetSyncOk
       \/ GetComplete
    /\ UNCHANGED <<pinVars, bsVars, xVars, txVars>>

\* The consumer keeps polling the stream.
FairGetFile == WF_vars(NextGetFile)

\* C31: the get of one file whose blocks are all there and whose sink
\* never fails ends, and it ends with a CompletedStatus whose written is the
\* size of the file and whose total_size is Some of it, the walker having
\* nothing left; for the foobar fixture both are 7.
C31_FileCompletes ==
    /\ (ux.pc = "loop" /\ ux.items = <<>>) ~> (ux.pc = "end")
    /\ [](ux.pc = "end"
            => LET last == ux.items[Len(ux.items)]
                   size == SumSeq([i \in DOMAIN ux.dag |-> ux.dag[i].len])
               IN /\ last = CompletedStatus(size, SomeSize(size))
                  /\ ux.dag[1].size = size
                  /\ ux.walker = <<>>
                  /\ ux.sink = size
                  /\ ux.dag = FoobarWalk => last = CompletedStatus(7, SomeSize(7)))

\* The get of the foobar fixture has ended.
C31_Witness ==
    /\ ux.pc = "end"
    /\ ux.dag = FoobarWalk
    /\ ux.fetched = 5
    /\ ux.items[Len(ux.items)].type = "CompletedStatus"

GetInit == ux = GetIdle

NextGet ==
    /\ \/ GetCall
       \/ GetFetch
       \/ GetNext
       \/ GetWrite
       \/ GetSync
       \/ GetComplete
    /\ UNCHANGED <<pinVars, bsVars, xVars, txVars>>

(***************************************************************************)
(* The pin store driven by a caller that walks the DAG: the set handed to  *)
(* insert_recursive_pin and remove_recursive_pin is the descendant set of  *)
(* the root.  The DAG is chosen once and travels with the call history.    *)
(***************************************************************************)
\* The descendant sets of the DAGs over Cids (links go from a CID to a
\* larger one, so that there is no cycle; a descendant's descendants are
\* descendants).
Dags ==
    {dag \in [Cids -> SUBSET Cids] :
        \A c \in Cids :
            /\ \A d \in dag[c] : d > c
            /\ \A d \in dag[c] : dag[d] \subseteq dag[c]}

HasDag == "dag" \in DOMAIN pinLast

Desc(root) == IF HasDag THEN pinLast.dag[root] ELSE {}

DChoose ==
    /\ pinLast.op = "none"
    /\ ~HasDag
    /\ \E dag \in Dags : pinLast' = pinLast @@ [dag |-> dag]
    /\ db' = db

DCall(op, target, refs, r) ==
    /\ pinLast.op = "none"
    /\ HasDag
    /\ db' = r.db
    /\ pinLast' = [op |-> op, target |-> target, refs |-> refs, res |-> r.res,
                   val |-> FALSE, pre |-> db, inserted |-> r.inserted,
                   removed |-> r.removed, chained |-> (pinLast.prev = target),
                   prev |-> 0, ids |-> <<>>, filter |-> "None", out |-> <<>>,
                   dag |-> pinLast.dag]

DInsertDirectPin ==
    \E target \in Cids :
        DCall("insert_direct_pin", target, {}, insert_direct_pin(db, target))

DInsertRecursivePin ==
    \E target \in Cids :
        DCall("insert_recursive_pin", target, Desc(target),
              insert_recursive_pin(db, target, Desc(target)))

DRemoveDirectPin ==
    \E target \in Cids :
        DCall("remove_direct_pin", target, {}, remove_direct_pin(db, target))

DRemoveRecursivePin ==
    \E target \in Cids :
        DCall("remove_recursive_pin", target, Desc(target),
              remove_recursive_pin(db, target, Desc(target)))

DReturn ==
    /\ pinLast.op /= "none"
    /\ HasDag
    /\ db' = db
    /\ pinLast' = Idle(IF pinLast.op = "insert_direct_pin" /\ pinLast.res = Ok
                       THEN pinLast.target
                       ELSE 0) @@ [dag |-> pinLast.dag]

NextPinDag ==
    /\ \/ DChoose
       \/ DInsertDirectPin
       \/ DInsertRecursivePin
       \/ DRemoveDirectPin
       \/ DRemoveRecursivePin
       \/ DReturn
    /\ UNCHANGED <<bsVars, xVars, txVars, getVars>>

\* C36: whenever a root is pinned Recursive, every CID of its descendant
\* set is pinned under some mode, the callers always passing the true
\* descendant set (two recursive roots that share a descendant, one of them
\* removed; a descendant pinned directly and unpinned again).
C36_DescendantsPinned ==
    \A root \in Cids :
        PinnedAs(db, root, "Recursive")
            => \A d \in Desc(root) : ModesOf(db, d) /= {}

\* C37: a successful remove_direct_pin(c) or remove_recursive_pin(c, refs)
\* leaves is_pinned(c) false whichever of Direct and Recursive c was pinned
\* as, and remove_recursive_pin deletes the Indirect keys of descendants
\* only when c was pinned Recursive.
C37_RemoveUnpins ==
    /\ (pinLast.op \in {"remove_direct_pin", "remove_recursive_pin"}
          /\ pinLast.res = Ok)
         => ~is_pinned(db, pinLast.target)
    /\ (pinLast.op = "remove_recursive_pin"
          /\ \E d \in Cids : get_pin_key(d, "Indirect") \in pinLast.removed)
         => PinnedAs(pinLast.pre, pinLast.target, "Recursive")

\* C38: for every Indirect key of the store, the ancestor stored as its
\* value is pinned Recursive, the callers passing the same descendant set
\* for a root to insert_recursive_pin and to remove_recursive_pin.
C38_NoDanglingIndirect ==
    \A cid \in Cids :
        LET key == get_pin_key(cid, "Indirect")
        IN key \in DOMAIN db
             => LET from == cid_from_indirect_value(db[key])
                IN from.ok /\ PinnedAs(db, from.cid, "Recursive")

\* A root without descendants was unpinned while the Indirect key of the
\* descendant of another root is in the store.
C38_Witness ==
    /\ pinLast.op = "remove_recursive_pin"
    /\ pinLast.res = Ok
    /\ PinnedAs(pinLast.pre, pinLast.target, "Recursive")
    /\ ~PinnedAs(db, pinLast.target, "Recursive")
    /\ \E root \in Cids \ {pinLast.target} :
         \E d \in Desc(root) :
            /\ get_pin_key(d, "Indirect") \in DOMAIN db
            /\ db[get_pin_key(d, "Indirect")] = indirect_value(root)

(***************************************************************************)
(* poll called again and again while the user keeps making calls: the      *)
(* iteration order of connected_peers is fixed when the map changes and    *)
(* stays with the call history until it changes again.                     *)
(***************************************************************************)
FOrder == IF "order" \in DOMAIN bsLast THEN bsLast.order ELSE <<>>

FCall(op, peer, cid, priority, peers, b, order) ==
    /\ bsLast.op = "none"
    /\ Len(bs.events) <= MaxHEvents
    /\ bs' = b
    /\ bsLast' = [op |-> op, peer |-> peer, cid |-> cid, priority |-> priority,
                  peers |-> peers, wrapper |-> WrapperTx, ret |-> NoReturn,
                  pre |-> Bitswap_default, after |-> bsLast.after,
                  order |-> order]

FConnectionEstablished ==
    \E peer_id \in Peers :
        /\ conns[peer_id] < MaxConns
        /\ LET b == ConnectionEstablished(bs, peer_id)
           IN \E order \in Orders(DOMAIN b.connected_peers) :
                FCall("ConnectionEstablished", peer_id, 0, 0, {}, b, order)
        /\ conns' = [conns EXCEPT ![peer_id] = @ + 1]

FSendBlock ==
    \E peer_id \in Peers, block \in PBlocks :
        /\ Committed(bs, peer_id) < MaxSentBlocks
        /\ FCall("send_block", peer_id, block.cid, 0, {},
                 send_block(bs, peer_id, block), FOrder)
        /\ UNCHANGED conns

\* A block is asked of one peer.
FWantBlockFromPeers ==
    \E cid \in HCids, peer_id \in Peers :
        /\ FCall("want_block_from_peers", 0, cid, 1, {peer_id},
                 want_block_from_peers(bs, cid, 1, {peer_id}), FOrder)
        /\ UNCHANGED conns

FPoll ==
    /\ bsLast.op = "none"
    /\ LET r == poll(bs, FOrder)
       IN /\ bs' = r.b
          /\ bsLast' = [op |-> "poll", peer |-> 0, cid |-> 0, priority |-> 0,
                        peers |-> {}, wrapper |-> WrapperTx, ret |-> r.ret,
                        pre |-> Bitswap_default, after |-> bsLast.after,
                        order |-> FOrder]
    /\ UNCHANGED conns

FReturn ==
    /\ bsLast.op /= "none"
    /\ bsLast' = BsIdle(NoCallBefore) @@ [order |-> FOrder]
    /\ UNCHANGED <<bs, conns>>

\* C39: no peer is starved: with poll called again and again, the message
\* of every connected peer whose ledger holds outbound data is returned in
\* the end, also when blocks and wants keep being added to the ledgers of
\* other peers between the polls.
C39_NoPeerStarved ==
    \A p \in Peers :
        (p \in DOMAIN bs.connected_peers /\ HasOutbound(bs, p))
            ~> (p \notin DOMAIN bs.connected_peers \/ ~HasOutbound(bs, p))

(***************************************************************************)
(* Messages from a peer without a ledger: a peer may have several          *)
(* connections, ConnectionClosed takes its ledger away when one of them    *)
(* closes, and the handler of a connection that is left reports a message. *)
(***************************************************************************)
\* The messages sent here: at most one want, one cancel and one block.
RMessages ==
    {m \in [want : UNION {[S -> Prios] : S \in {{}} \cup {{c} : c \in HCids}},
            cancel : {{}} \cup {{c} : c \in HCids},
            blocks : {<<>>} \cup {<<Block(c)>> : c \in HCids}] :
        m /= Message_default}

RRx ==
    /\ bsLast.op = "none"
    /\ HCalls < MaxSCalls
    /\ Len(bs.events) <= MaxHEvents
    /\ \E source \in {p \in Peers : conns[p] > 0}, message \in RMessages :
        \E cancel_order \in Orders(message.cancel),
           want_order \in Orders(DOMAIN message.want) :
            /\ bs' = on_connection_handler_event(bs, source, WrapperRx(message),
                                                 cancel_order, want_order)
            /\ bsLast' = [op |-> "handler_rx", peer |-> source, cid |-> 0,
                          priority |-> 0, peers |-> {},
                          wrapper |-> WrapperRx(message), ret |-> NoReturn,
                          pre |-> bs, after |-> bsLast.after,
                          calls |-> HCalls + 1]
            /\ UNCHANGED conns

\* C40: a received message whose source has no ledger in connected_peers
\* changes nothing of the behaviour and adds no event: the CIDs of the
\* blocks it carried are wanted as before and no ReceivedBlock is queued.
C40_StrayRx ==
    (bsLast.op = "handler_rx" /\ bsLast.peer \notin DOMAIN bsLast.pre.connected_peers)
        => /\ bs = bsLast.pre
           /\ bs.events = bsLast.pre.events
           /\ \A i \in DOMAIN bsLast.wrapper.message.blocks :
                LET cid == bsLast.wrapper.message.blocks[i].cid
                IN cid \in DOMAIN bsLast.pre.wanted_blocks
                     => cid \in DOMAIN bs.wanted_blocks

\* A peer that has a connection and no ledger sends a block that is wanted.
C40_Witness ==
    /\ bsLast.op = "handler_rx"
    /\ conns[bsLast.peer] > 0
    /\ bsLast.peer \notin DOMAIN bsLast.pre.connected_peers
    /\ \E i \in DOMAIN bsLast.wrapper.message.blocks :
         bsLast.wrapper.message.blocks[i].cid \in DOMAIN bs.wanted_blocks

(***************************************************************************)
(* Specifications.                                                         *)
(***************************************************************************)
Init == PinInit /\ BsInit /\ XInit /\ TxInit /\ GetInit

NextPin ==
    /\ \/ IsPinned
       \/ InsertDirectPin
       \/ InsertRecursivePin
       \/ RemoveDirectPin
       \/ RemoveRecursivePin
       \/ Query
       \/ List
       \/ PinReturn
    /\ UNCHANGED <<bsVars, xVars, txVars, getVars>>

\* The wantlist side of the behaviour: dialling, wants and cancels, the
\* connection events, handler messages and poll.
NextBitswap ==
    /\ \/ Connect
       \/ WantBlock
       \/ WantBlockFromPeers
       \/ CancelBlock
       \/ SwarmConnectionEstablished
       \/ SwarmConnectionClosed
       \/ HandlerTx
       \/ HandlerRx
       \/ Poll
       \/ BsReturn
    /\ UNCHANGED <<pinVars, xVars, txVars, getVars>>

\* The block side of the behaviour: queued blocks, the two channels and poll.
NextBlocks ==
    /\ \/ SendBlock
       \/ DontHave
       \/ DontHaveForPeer
       \/ SwarmConnectionEstablished
       \/ SwarmConnectionClosed
       \/ QueueBlock
       \/ QueueDontHave
       \/ Poll
       \/ BsReturn
    /\ UNCHANGED <<pinVars, xVars, txVars, getVars>>

SpecPin == Init /\ [][NextPin]_vars

SpecPinTx == Init /\ [][NextPinTx]_vars

SpecPinDag == Init /\ [][NextPinDag]_vars

SpecBitswap == Init /\ [][NextBitswap]_vars

SpecBlocks == Init /\ [][NextBlocks]_vars

NextHandler ==
    /\ \/ HWantBlock
       \/ HConnectionEstablished
       \/ HRx
       \/ HPoll
       \/ HReturn
    /\ UNCHANGED <<pinVars, xVars, txVars, getVars>>

SpecHandler == Init /\ [][NextHandler]_vars

NextSwarm ==
    /\ \/ SConnect
       \/ SWantBlock
       \/ SSendBlock
       \/ SConnectionEstablished
       \/ SConnectionClosed
       \/ HPoll
       \/ HReturn
    /\ UNCHANGED <<pinVars, xVars, txVars, getVars>>

SpecSwarm == Init /\ [][NextSwarm]_vars

NextPoll ==
    /\ \/ PConnect
       \/ PWantBlock
       \/ PSendBlock
       \/ PQueueBlock
       \/ PQueueDontHave
       \/ PConnectionEstablished
       \/ PConnectionClosed
       \/ PRx
       \/ PPoll
       \/ PReturn
    /\ UNCHANGED <<pinVars, xVars, txVars, getVars>>

SpecPoll == Init /\ [][NextPoll]_vars

NextConns ==
    /\ \/ SWantBlock
       \/ SSendBlock
       \/ KConnectionEstablished
       \/ SConnectionClosed
       \/ HReturn
    /\ UNCHANGED <<pinVars, xVars, txVars, getVars>>

SpecConns == Init /\ [][NextConns]_vars

NextCancel ==
    /\ \/ CWantBlock
       \/ CCancelBlock
       \/ CConnectionEstablished
       \/ CRx
       \/ CPoll
       \/ CReturn
    /\ UNCHANGED <<pinVars, xVars, txVars, getVars>>

\* The swarm keeps polling and every call returns.
FairCancel ==
    /\ WF_vars(CPoll /\ UNCHANGED <<pinVars, xVars, txVars, getVars>>)
    /\ WF_vars(CReturn /\ UNCHANGED <<pinVars, xVars, txVars, getVars>>)

SpecCancel == Init /\ [][NextCancel]_vars /\ FairCancel

NextStarve ==
    /\ \/ FConnectionEstablished
       \/ FSendBlock
       \/ FWantBlockFromPeers
       \/ FPoll
       \/ FReturn
    /\ UNCHANGED <<pinVars, xVars, txVars, getVars>>

\* The swarm polls again and again and every call returns.
FairStarve ==
    /\ SF_vars(FPoll /\ UNCHANGED <<pinVars, xVars, txVars, getVars>>)
    /\ WF_vars(FReturn /\ UNCHANGED <<pinVars, xVars, txVars, getVars>>)

SpecStarve == Init /\ [][NextStarve]_vars /\ FairStarve

NextStray ==
    /\ \/ SWantBlock
       \/ KConnectionEstablished
       \/ SConnectionClosed
       \/ RRx
       \/ HReturn
    /\ UNCHANGED <<pinVars, xVars, txVars, getVars>>

SpecStray == Init /\ [][NextStray]_vars

SpecGet == Init /\ [][NextGet]_vars

SpecGetFile == Init /\ [][NextGetFile]_vars /\ FairGetFile

SpecExchange == Init /\ [][NextExchange]_vars /\ FairExchange

====
